---------------------------- MODULE Spec2Model ----------------------------
(***************************************************************************)
(* FATtools: a model of the sector cache (FATtools/disk.py) and of the     *)
(* FAT allocator, cluster chains, handles and directory tables             *)
(* (FATtools/FAT.py).                                                      *)
(*                                                                         *)
(* Sizes are scaled down: a sector holds BlockSize bytes, a cluster        *)
(* ClusterBytes bytes, the cache pool CacheSlots sectors.  Every place     *)
(* where the source writes 512 for the sector size reads BlockSize here.   *)
(***************************************************************************)
EXTENDS Integers, Sequences, FiniteSets, TLC

VARIABLES
    disk,       \* the disk object of disk.py: its fields, as a record; with two
                \* ghost fields about the last call: raised (it ended by raising)
                \* and failed (the sectors whose backend write raised during it)
    shadow,     \* ghost: the bytes a file-like device holds after the calls so far
    dres,       \* ghost: what the last call on the disk did and returned
    vol,        \* a mounted FAT32 volume (FAT.py): the FAT object, the data region,
                \* the directory registry, the entries and the handles; with ghost
                \* fields about the last call: raised, wild (bytes written outside
                \* the data region)
    gh          \* ghost: what the last call on the volume did and returned

diskvars == <<disk, shadow, dres>>
volvars == <<vol, gh>>
vars == <<disk, shadow, dres, vol, gh>>

(***************************************************************************)
(* Helpers                                                                 *)
(***************************************************************************)
Min(a, b) == IF a < b THEN a ELSE b
Max(a, b) == IF a > b THEN a ELSE b

\* n zero bytes: bytearray(n)
Zeros(n) == [i \in 1..n |-> 0]

\* no volume is mounted, no call was made on one (the sector cache is modelled alone)
NoVolume == [size |-> 0]
NoCall == [op |-> "none", calls |-> 0]

(***************************************************************************)
(*                         disk.py: the sector cache                       *)
(***************************************************************************)
BlockSize == 2       \* bytes in a sector (disk.blocksize, 512 in the source)
DiskSectors == 3     \* sectors of the backing file
CacheSlots == 2      \* sectors the cache pool holds (len(rawcache) / blocksize)
MaxXfer == 5         \* longest read or write issued, in bytes
MaxByte == 1         \* bytes written are in 1..MaxByte; the file starts zeroed
MaxCalls == 5        \* calls issued on the disk object in one run

DiskSize == DiskSectors * BlockSize
CacheLen == CacheSlots * BlockSize
Sectors == 0..DiskSectors          \* si reaches DiskSectors when pos = size
SlotOffs == {k * BlockSize : k \in 0..CacheSlots}
NoEntry == -1                      \* a key absent from cache_table / cache_tableR

EmptyTable == [s \in Sectors |-> NoEntry]
EmptyTableR == [v \in SlotOffs |-> NoEntry]

\* BytesIO.write(data) at byte offset at: the file grows, zero filled, as needed
FileWrite(f, at, data) ==
    IF Len(data) = 0 THEN f
    ELSE [i \in 1..Max(Len(f), at + Len(data)) |->
            IF i > at /\ i <= at + Len(data) THEN data[i - at]
            ELSE IF i <= Len(f) THEN f[i] ELSE 0]

\* BytesIO.readinto(buffer of n bytes) at byte offset at: the bytes available
FileRead(f, at, n) ==
    IF at >= Len(f) THEN <<>> ELSE SubSeq(f, at + 1, Min(at + n, Len(f)))

\* cache[off : off+n]: a slice of the pool, clipped at its end
CacheSlice(c, off, n) == [i \in 1..Max(0, Min(n, CacheLen - off)) |-> c[off + i - 1]]

\* cache[off : off+len(data)] = data
CachePut(c, off, data) ==
    [j \in DOMAIN c |-> IF j >= off /\ j < off + Len(data) THEN data[j - off + 1] ELSE c[j]]

\* buf[a : a+n] of a buffer held as a sequence (Python slicing clips at the end)
Slice(b, a, n) ==
    IF a >= Len(b) THEN <<>> ELSE SubSeq(b, a + 1, Min(a + n, Len(b)))

\* disk.seek(offset), whence = 0
DSeek(d, offset) ==
    LET p1 == IF offset > DiskSize THEN DiskSize ELSE offset
        p == IF p1 < 0 THEN 0 ELSE p1
    IN [d EXCEPT !.pos = p, !.si = p \div BlockSize, !.so = p % BlockSize,
                 !.fpos = (p \div BlockSize) * BlockSize]

\* cache_flush(sector): commits one dirty sector; a backend error propagates
FlushOne(d, sec, bad) ==
    IF d.cache_dirties = {}
    THEN [d EXCEPT !.cache_table = EmptyTable, !.cache_tableR = EmptyTableR]
    ELSE IF sec \in bad
    THEN [d EXCEPT !.fpos = sec * BlockSize, !.raised = TRUE,
                   !.failed = d.failed \cup {sec}]
    ELSE [d EXCEPT !.file = FileWrite(d.file, sec * BlockSize,
                                      CacheSlice(d.cache, d.cache_table[sec], BlockSize)),
                   !.fpos = (sec + 1) * BlockSize,
                   !.cache_dirties = d.cache_dirties \ {sec}]

\* the sectors the loop of cache_flush() writes: those of cache_dirties found in
\* cache_table and whose backend write does not raise (the bare except skips the
\* rest); a slot registered at the end of the pool is an empty slice, nothing is written
FlushWritten(d, bad) ==
    {s \in d.cache_dirties : /\ d.cache_table[s] # NoEntry
                             /\ d.cache_table[s] + BlockSize <= CacheLen
                             /\ s \notin bad}

\* cache_flush(): commits the dirty sectors in ascending order, resets the tables
FlushAll(d, bad) ==
    IF d.cache_dirties = {}
    THEN [d EXCEPT !.cache_table = EmptyTable, !.cache_tableR = EmptyTableR]
    ELSE LET W == FlushWritten(d, bad)
             top == CHOOSE s \in d.cache_dirties : \A t \in d.cache_dirties : t <= s
             newlen == IF W = {} THEN Len(d.file)
                       ELSE Max(Len(d.file),
                                ((CHOOSE s \in W : \A t \in W : t <= s) + 1) * BlockSize)
         IN [d EXCEPT
               !.file = [i \in 1..newlen |->
                           LET s == (i - 1) \div BlockSize IN
                           IF s \in W THEN d.cache[d.cache_table[s] + ((i - 1) % BlockSize)]
                           ELSE IF i <= Len(d.file) THEN d.file[i] ELSE 0],
               !.fpos = IF top \in W THEN (top + 1) * BlockSize ELSE top * BlockSize,
               !.failed = d.failed \cup {s \in d.cache_dirties \cap bad :
                                            d.cache_table[s] # NoEntry},
               !.cache_dirties = {},
               !.cache_table = EmptyTable,
               !.cache_tableR = EmptyTableR]

\* cache_retrieve() for several blocks: flushes the dirty ones, always a miss
RECURSIVE RetrieveMulti(_, _, _, _)
RetrieveMulti(d, i, n, bad) ==
    LET ReSeek(f) == IF f.raised THEN f ELSE DSeek(f, f.pos)
        Step(sec) == IF sec \in Sectors /\ d.cache_table[sec] # NoEntry
                        /\ sec \in d.cache_dirties
                     THEN ReSeek(FlushOne(d, sec, bad))
                     ELSE d
    IN IF i >= n \/ d.raised THEN d
       ELSE RetrieveMulti(Step(d.si + i), i + 1, n, bad)

\* cache_retrieve() for one block: a hit iff the sector is in cache_table
RetrieveHit(d) == d.cache_table[d.si] # NoEntry

\* cache_readinto(): loads asize bytes at the next cache slot, maps si to it
CacheReadInto(d, asize, bad) ==
    LET Load(d1, p, got, old) ==
            [d1 EXCEPT !.cache = CachePut(d1.cache, p, got),
                       !.fpos = d1.fpos + Len(got),
                       !.cache_index = p + asize,
                       !.cache_table =
                           [(IF old # NoEntry
                             THEN [d1.cache_table EXCEPT ![old] = NoEntry]
                             ELSE d1.cache_table) EXCEPT ![d1.si] = p],
                       !.cache_tableR = [d1.cache_tableR EXCEPT ![p] = d1.si],
                       !.buf = p]
        Fetch(d1) == Load(d1, d1.cache_index, FileRead(d1.file, d1.fpos, asize),
                          d1.cache_tableR[d1.cache_index])
    IN Fetch(IF d.cache_index + asize > CacheLen
             THEN DSeek([FlushAll(d, bad) EXCEPT !.cache_index = 0], d.pos)
             ELSE d)

\* buf[so : so+len(data)] = data on the slot at offset p: a memoryview slice
\* shorter than data (a slot registered at the end of the pool) raises
BufPut(d, p, data) ==
    IF p + d.so + Len(data) > Min(CacheLen, p + BlockSize)
    THEN [d EXCEPT !.raised = TRUE]
    ELSE [d EXCEPT !.cache = CachePut(d.cache, p + d.so, data),
                   !.cache_dirties = d.cache_dirties \cup {d.si}]

\* the cached write of write(): asize = 512, cache_retrieve() or cache_readinto(),
\* then the bytes are stored in the slot and the sector is marked dirty
CachedWrite(d, data, bad) ==
    LET Put(d1) == BufPut(d1, d1.buf, data)
    IN Put(IF RetrieveHit(d) THEN [d EXCEPT !.buf = d.cache_table[d.si]]
           ELSE CacheReadInto(d, BlockSize, bad))

\* disk.read(size), size >= 0
DRead(d0, size0, bad) ==
    LET Single(d2, asize, size) ==
            [disk |-> [d2 EXCEPT !.pos = d2.pos + size],
             out |-> Slice(CacheSlice(d2.cache, d2.buf, asize), d2.so, size)]
        Direct(d1, asize, size, got) ==
            [disk |-> [d1 EXCEPT !.fpos = d1.si * BlockSize + Len(got),
                                 !.si = d1.si + asize \div BlockSize,
                                 !.pos = d1.pos + size],
             out |-> Slice(got \o Zeros(asize - Len(got)), d1.so, size)]
        Missed(d1, asize, size) ==
            IF d1.raised THEN [disk |-> d1, out |-> <<>>]
            ELSE IF asize > BlockSize
            THEN Direct(d1, asize, size, FileRead(d1.file, d1.si * BlockSize, asize))
            ELSE Single(CacheReadInto(d1, asize, bad), asize, size)
        Sized(d, size, asize) ==
            IF asize = BlockSize /\ RetrieveHit(d)
            THEN [disk |-> [d EXCEPT !.pos = d.pos + size, !.buf = d.cache_table[d.si]],
                  out |-> Slice(CacheSlice(d.cache, d.cache_table[d.si], asize),
                                d.so, size)]
            ELSE Missed(IF asize = BlockSize THEN d
                        ELSE RetrieveMulti(d, 0, asize \div BlockSize, bad),
                        asize, size)
        Clamped(d, size) ==
            Sized(d, size,
                  ((d.pos + size) \div BlockSize
                     + (IF (d.pos + size) % BlockSize # 0 THEN 1 ELSE 0) - d.si)
                  * BlockSize)
        Start(d) ==
            Clamped(d, IF d.pos + size0 > DiskSize THEN DiskSize - d.pos ELSE size0)
    IN Start(DSeek([d0 EXCEPT !.raised = FALSE, !.failed = {}], d0.pos))

\* write(), first part: completes the sector the position is in (self.so # 0)
DWriteHead(d, s, bad) ==
    LET Done(d1, j) ==
            IF d1.raised THEN [disk |-> d1, rest |-> <<>>]
            ELSE [disk |-> DSeek(d1, d1.pos + j), rest |-> SubSeq(s, j + 1, Len(s))]
        First(j) == Done(CachedWrite(d, SubSeq(s, 1, j), bad), j)
    IN IF d.so = 0 THEN [disk |-> d, rest |-> s]
       ELSE First(Min(BlockSize - d.so, Len(s)))

\* write(), second part: more than a sector left, the full sectors go straight
\* to the backing file (at its current position) and leave the cache
DWriteFull(d, s) ==
    LET Out(d1, full) ==
            [disk |-> DSeek(d1, d1.pos + full * BlockSize),
             rest |-> SubSeq(s, full * BlockSize + 1, Len(s))]
        Drop(full, gone) ==
            Out([d EXCEPT
                   !.cache_table = [x \in Sectors |->
                                      IF x \in gone THEN NoEntry ELSE d.cache_table[x]],
                   !.cache_tableR = [v \in SlotOffs |->
                                       IF \E x \in gone : d.cache_table[x] = v
                                       THEN NoEntry ELSE d.cache_tableR[v]],
                   !.cache_dirties = d.cache_dirties \ gone,
                   !.file = FileWrite(d.file, d.fpos, SubSeq(s, 1, full * BlockSize)),
                   !.fpos = d.fpos + full * BlockSize], full)
        Full(full) ==
            Drop(full, {x \in d.si..(d.si + full - 1) :
                          x \in Sectors /\ d.cache_table[x] # NoEntry})
    IN IF Len(s) <= BlockSize THEN [disk |-> d, rest |-> s]
       ELSE Full(Len(s) \div BlockSize)

\* disk.write(s), len(s) > 0
DWrite(d0, s, bad) ==
    LET Final(d3) == IF d3.raised THEN d3 ELSE DSeek(d3, d3.pos)
        Moved(c, n) == IF c.raised THEN c ELSE [c EXCEPT !.pos = c.pos + n]
        Last(f) == Final(IF Len(f.rest) = 0 THEN f.disk
                         ELSE Moved(CachedWrite(f.disk, f.rest, bad), Len(f.rest)))
        Body(h) == IF h.disk.raised THEN h.disk
                   ELSE Last(DWriteFull(h.disk, h.rest))
    IN Body(DWriteHead([d0 EXCEPT !.raised = FALSE, !.failed = {}], s, bad))

\* the disk after disk.__init__ on a zeroed backing file
DiskInit ==
    [file |-> Zeros(DiskSize), fpos |-> 0, pos |-> 0, si |-> 0, so |-> 0, buf |-> 0,
     cache |-> [j \in 0..(CacheLen - 1) |-> 0], cache_index |-> 0,
     cache_dirties |-> {}, cache_table |-> EmptyTable, cache_tableR |-> EmptyTableR,
     raised |-> FALSE, failed |-> {}]

\* the sets of sectors whose backend write raises during one call
BadSets == {{}} \cup {{x} : x \in Sectors}

InitDisk ==
    /\ disk = DiskInit
    /\ shadow = Zeros(DiskSize)
    /\ dres = [op |-> "init", good |-> TRUE, calls |-> 0]
    /\ vol = NoVolume
    /\ gh = NoCall

\* disk.seek(offset)
DiskSeek ==
    \E o \in 0..DiskSize :
        /\ disk' = DSeek([disk EXCEPT !.raised = FALSE, !.failed = {}], o)
        /\ dres.calls < MaxCalls
        /\ dres' = [op |-> "seek", good |-> TRUE, calls |-> dres.calls + 1]
        /\ UNCHANGED <<shadow, vol, gh>>

\* disk.read(n)
DiskRead ==
    \E n \in 0..MaxXfer, bad \in BadSets :
        LET Returned(r) ==
                /\ disk' = r.disk
                /\ dres' = [op |-> "read", good |-> (r.out = Slice(shadow, disk.pos, n)),
                            calls |-> dres.calls + 1]
        IN /\ dres.calls < MaxCalls
           /\ Returned(DRead(disk, n, bad))
           /\ UNCHANGED <<shadow, vol, gh>>

\* disk.write(s), the caller staying inside the device
DiskWrite ==
    \E n \in 1..MaxXfer, v \in 1..MaxByte, bad \in BadSets :
        /\ disk.pos + n <= DiskSize
        /\ disk' = DWrite(disk, [i \in 1..n |-> v], bad)
        /\ shadow' = FileWrite(shadow, disk.pos, [i \in 1..n |-> v])
        /\ dres.calls < MaxCalls
        /\ dres' = [op |-> "write", good |-> TRUE, calls |-> dres.calls + 1]
        /\ UNCHANGED <<vol, gh>>

\* disk.flush()
DiskFlush ==
    \E bad \in BadSets :
        /\ disk' = FlushAll([disk EXCEPT !.raised = FALSE, !.failed = {}], bad)
        /\ dres.calls < MaxCalls
        /\ dres' = [op |-> "flush", good |-> TRUE, calls |-> dres.calls + 1]
        /\ UNCHANGED <<shadow, vol, gh>>

NextDisk == DiskSeek \/ DiskRead \/ DiskWrite \/ DiskFlush

SpecDisk == InitDisk /\ [][NextDisk]_vars


(***************************************************************************)
(* Claims on the sector cache                                              *)
(***************************************************************************)

\* C4: read-your-writes. A read that returns normally returns the bytes most
\* recently written to its byte range (those a file-like device would hold),
\* whether or not they have been flushed.
C4_ReadYourWrites == (dres.op = "read" /\ ~disk.raised) => dres.good

\* C5: a backend error raised while the cache is flushed surfaces to the caller
\* that triggered the flush, and the sectors that were not written stay dirty.
C5_FlushErrorSurfaces ==
    disk.failed # {} => (disk.raised /\ disk.failed \subseteq disk.cache_dirties)


(***************************************************************************)
(*                 FAT.py: the FAT object (a FAT32 table)                  *)
(***************************************************************************)
LAST == 268435448        \* FAT.last for 32 bits, 0x0FFFFFF8
RESERVED == 268435447    \* FAT.reserved for 32 bits, 0x0FFFFFF7

NumClusters == 7     \* clusters of the data region of the largest volume
FatSectorSlots == 4  \* FAT slots in a sector (512 / 4 in the source)
MaxFatCalls == 3     \* FAT writes issued in one run of the FAT object alone

\* an ordered dictionary {key: value} held as a sequence of <<key, value>>, in
\* insertion order: the free runs map, the runs of a chain, the slots map
MapHas(m, k) == \E j \in 1..Len(m) : m[j][1] = k

\* dict.get(k), 0 standing for None
MapGet(m, k) ==
    IF MapHas(m, k) THEN m[CHOOSE j \in 1..Len(m) : m[j][1] = k][2] ELSE 0

\* d[k] = n: a key already there keeps its place, a new one goes last
MapSet(m, k, n) ==
    IF MapHas(m, k)
    THEN [j \in 1..Len(m) |-> IF m[j][1] = k THEN <<k, n>> ELSE m[j]]
    ELSE Append(m, <<k, n>>)

\* del d[k]
MapDel(m, k) == SelectSeq(m, LAMBDA r : r[1] # k)

\* d1 != d2 on dictionaries compares the items, not their order
SameDict(a, b) == {a[j] : j \in 1..Len(a)} = {b[j] : j \in 1..Len(b)}

\* sorted(S)
RECURSIVE SortedSeq(_)
SortedSeq(S) ==
    IF S = {} THEN <<>>
    ELSE LET x == CHOOSE y \in S : \A z \in S : y <= z
         IN <<x>> \o SortedSeq(S \ {x})

\* the while loop of map_compact(): merges into the run k the runs that follow it
RECURSIVE MergeRuns(_, _, _)
MergeRuns(d, k, n) ==
    IF MapGet(d, k + n) # 0
    THEN MergeRuns(MapDel(MapSet(d, k, n + MapGet(d, k + n)), k + n),
                   k, n + MapGet(d, k + n))
    ELSE d

\* the for loop of map_compact() over sorted(map.items())
RECURSIVE CompactPass(_, _, _)
CompactPass(m, d, keys) ==
    IF keys = <<>> THEN d
    ELSE CompactPass(m, MergeRuns(d, keys[1], MapGet(m, keys[1])), Tail(keys))

\* the outer loop of map_compact(): one more pass as long as a pass changed the map
RECURSIVE CompactLoop(_)
CompactLoop(m) ==
    LET Again(d) == IF SameDict(m, d) THEN m ELSE CompactLoop(d)
    IN Again(CompactPass(m, m, SortedSeq({m[j][1] : j \in 1..Len(m)})))

\* FAT.real_last
RealLast(v) == Min(RESERVED - 1, v.size + 1)

\* FAT.islast(index)
IsLast(x) == LAST <= x /\ x <= LAST + 7

\* FAT.__getitem__: an index out of the table reads as LAST
GetItem(v, index) ==
    IF 2 <= index /\ index <= RealLast(v) THEN v.area[index] ELSE LAST

\* FAT.__setitem__: an invalid index or value is dropped silently; the slot is
\* written in FAT1 and at the same displacement from offset2
SetItem(v, index, value) ==
    IF ~(2 <= index /\ index <= RealLast(v)) THEN v
    ELSE IF ~(value <= RealLast(v) \/ value >= RESERVED) THEN v
    ELSE IF value < 0 THEN [v EXCEPT !.raised = TRUE]      \* struct.pack raises
    ELSE [v EXCEPT !.area = [p \in DOMAIN v.area |->
                               IF p = index \/ p = v.offset2 + index THEN value
                               ELSE v.area[p]]]

\* FAT.count_run(start): the length of the contiguous run from start, and the
\* slot value that ends it
RECURSIVE CountRun(_, _, _)
CountRun(v, start, n) ==
    IF IsLast(start) THEN <<n, start>>
    ELSE IF start # GetItem(v, start) - 1 THEN <<n, GetItem(v, start)>>
    ELSE CountRun(v, GetItem(v, start), n + 1)

\* FAT.count(startcluster): clusters in the chain and its last cluster; hang is
\* set when the loop does not end (a chain that bites its tail)
RECURSIVE Count(_, _, _)
Count(v, start, n) ==
    IF IsLast(GetItem(v, start)) THEN [n |-> n, last |-> start, hang |-> FALSE]
    ELSE IF n > v.size THEN [n |-> n, last |-> start, hang |-> TRUE]
    ELSE Count(v, GetItem(v, start), n + 1)

\* FAT.map_free_space(): the runs of zero slots among the clusters 2..size+1
MapFreeSpace(area, size) ==
    LET free(i) == i >= 2 /\ i <= size + 1 /\ area[i] = 0
        len(i) == (CHOOSE j \in (i + 1)..(size + 2) :
                      ~free(j) /\ \A k \in i..(j - 1) : free(k)) - i
        starts == SortedSeq({i \in 2..(size + 1) : free(i) /\ ~free(i - 1)})
    IN [j \in 1..Len(starts) |-> <<starts[j], len(starts[j])>>]

\* FAT.findfree(count): takes up to count clusters from the run inserted last
FindFree(v, count) ==
    LET m == v.free_clusters_map
        Took(i, n) ==
            [v |-> [v EXCEPT
                      !.free_clusters_map =
                          IF n - count > 0
                          THEN MapSet(SubSeq(m, 1, Len(m) - 1), i + count, n - count)
                          ELSE SubSeq(m, 1, Len(m) - 1),
                      !.free_clusters = @ - Min(n, count)],
             i |-> i, n |-> Min(n, count)]
    IN IF Len(m) = 0 THEN [v |-> v, i |-> -1, n |-> -1]
       ELSE Took(m[Len(m)][1], m[Len(m)][2])

\* FAT.map_compact()
MapCompact(v) ==
    IF v.free_clusters_flag = 0 THEN v
    ELSE [v EXCEPT !.free_clusters_map = CompactLoop(@), !.free_clusters_flag = 0]

\* FAT.mark_run(start, count, clear): writes count consecutive slots in FAT1 and
\* the same bytes at offset2; slots past the FAT area are not modelled
MarkRun(v, start, count, clear) ==
    LET in1(p) == start <= p /\ p < start + count
        in2(p) == v.offset2 + start <= p /\ p < v.offset2 + start + count
        link(q) == IF q = start + count - 1 THEN LAST ELSE q + 1
    IN IF count = 0 \/ start < 2 \/ start > RealLast(v) THEN v
       ELSE IF clear /\ count < 0 THEN [v EXCEPT !.raised = TRUE]  \* bytearray(<0)
       ELSE IF clear
       THEN [v EXCEPT !.area = [p \in DOMAIN v.area |->
                                  IF in1(p) \/ in2(p) THEN 0 ELSE v.area[p]],
                      !.free_clusters_flag = 1,
                      !.free_clusters_map = MapSet(@, start, count)]
       ELSE [v EXCEPT !.area = [p \in DOMAIN v.area |->
                                  IF in2(p) THEN link(p - v.offset2)
                                  ELSE IF in1(p) THEN link(p)
                                  ELSE v.area[p]]]

\* sectors of one FAT copy as the formatter sizes it, from clusters + 2 slots
FatSectors(size) == (size + 2 + FatSectorSlots - 1) \div FatSectorSlots

\* FAT.__init__ on a freshly formatted volume of size clusters: the FAT object
\* and the two FAT copies, FAT1 at slot 0 of area, the second copy where the
\* boot sector places it (bootfat2); offset2 is where the FAT object places it.
\* Slots 0 and 1 are reserved and never read: they hold end marks
FatInit(size) ==
    [size |-> size,
     offset2 |-> ((size + FatSectorSlots - 1) \div FatSectorSlots) * FatSectorSlots,
     bootfat2 |-> FatSectors(size) * FatSectorSlots,
     area |-> [p \in 0..(2 * FatSectors(size) * FatSectorSlots - 1) |->
                 IF p % (FatSectors(size) * FatSectorSlots) \in {0, 2} THEN LAST
                 ELSE IF p % (FatSectors(size) * FatSectorSlots) = 1 THEN LAST + 7
                 ELSE 0],
     free_clusters |-> size - 1,
     free_clusters_map |-> <<<<3, size - 1>>>>,
     free_clusters_flag |-> 1,
     raised |-> FALSE,
     wild |-> FALSE]

\* the values a caller stores in a slot: free, a cluster, end marks, a bad value
FatValues == {0, 3, LAST, LAST + 7, RESERVED - 1}

InitFat ==
    /\ \E size \in {NumClusters - 1, NumClusters} : vol = FatInit(size)
    /\ gh = [op |-> "init", calls |-> 0]
    /\ disk = DiskInit
    /\ shadow = <<>>
    /\ dres = [op |-> "none", good |-> TRUE, calls |-> 0]

\* fat[index] = value
FatSetItem ==
    \E index \in 0..(NumClusters + 2), value \in FatValues :
        /\ gh.calls < MaxFatCalls
        /\ vol' = SetItem([vol EXCEPT !.raised = FALSE], index, value)
        /\ gh' = [op |-> "set", calls |-> gh.calls + 1]
        /\ UNCHANGED diskvars

\* fat.mark_run(start, count, clear)
FatMarkRun ==
    \E start \in 0..(NumClusters + 2), count \in 1..2, clear \in BOOLEAN :
        /\ gh.calls < MaxFatCalls
        /\ start + count - 1 <= RealLast(vol)
        /\ vol' = MarkRun([vol EXCEPT !.raised = FALSE], start, count, clear)
        /\ gh' = [op |-> "mark", calls |-> gh.calls + 1]
        /\ UNCHANGED diskvars

NextFat == FatSetItem \/ FatMarkRun

SpecFat == InitFat /\ [][NextFat]_vars

\* C10: every FAT write is mirrored to FAT2, the second copy being where the
\* boot sector places it: after any sequence of FAT writes each slot of a
\* cluster holds the same value in FAT1 and in FAT2.
C10_MirroredAtBootFat2 ==
    \A i \in 2..RealLast(vol) : vol.area[vol.bootfat2 + i] = vol.area[i]


(***************************************************************************)
(*        FAT.py: allocation, cluster chains, handles, directory tables    *)
(*                                                                         *)
(* The data region is an array of cells, ClusterBytes to a cluster.  A     *)
(* cell of a file is one byte; a cell of a directory table is one 32-byte  *)
(* slot, so that a table offset of 32 * k in the source is the offset k    *)
(* here.  A run of the model ends at the first call that raises.           *)
(***************************************************************************)
ClusterBytes == 4    \* cells in a cluster (boot.cluster)
MaxHandles == 3      \* file handles obtained in one run
MaxTag == 2          \* bytes written to files are in 1..MaxTag
DirMaxSlots == 65536 \* slots a directory table may reach: (2<<20) // 32
Elsewhere == -1      \* the device stream is not inside a cluster of the chain
RootCluster == 2     \* boot.dwRootCluster

FileNames == {"a", "b"}
DirNames == {"d"}
\* the keys of a Names index: short names, lower-cased; E5 stands for the
\* short name read from a slot whose first byte is the erased mark 0xE5
NameKeys == FileNames \cup DirNames \cup {".", "..", "E5"}

\* str.lower() on the names the calls give
Lower(name) == IF name = "A" THEN "a" ELSE name

Ceil(a, b) == (a + b - 1) \div b

ZeroCell == [t |-> "zero"]
ForeignCell == [t |-> "foreign"]     \* a cell read outside the data region
UnknownCell == [t |-> "any"]         \* ghost: an offset nobody wrote yet
ByteCell(b) == [t |-> "byte", b |-> b]
ZeroCells(n) == [i \in 1..n |-> ZeroCell]

\* boot.cl2offset(cluster), in cells from the start of the data region
Cl2Offset(c) == (c - 2) * ClusterBytes

\* Chain(boot, fat, 0): lastvlcn is held as lvcn, llcn
NoChain ==
    [start |-> 0, size |-> 0, filesize |-> 0, pos |-> 0, runs |-> <<>>,
     nofat |-> FALSE, lvcn |-> 0, llcn |-> 0]

\* clusters in the first j runs of a runs map
RECURSIVE RunsLen(_, _)
RunsLen(runs, j) == IF j = 0 THEN 0 ELSE runs[j][2] + RunsLen(runs, j - 1)

\* the first run that holds the VCN vcn, 0 if none (the for loop of Chain.seek)
RunOfVcn(runs, vcn) ==
    LET hit(j) == RunsLen(runs, j - 1) <= vcn /\ vcn < RunsLen(runs, j)
    IN IF \E j \in 1..Len(runs) : hit(j)
       THEN CHOOSE j \in 1..Len(runs) : hit(j) /\ \A k \in 1..(j - 1) : ~hit(k)
       ELSE 0

\* the first run that holds the LCN lcn, 0 if none (the for loop of maxrun4len)
RunOfLcn(runs, lcn) ==
    LET hit(j) == runs[j][1] <= lcn /\ lcn < runs[j][1] + runs[j][2]
    IN IF \E j \in 1..Len(runs) : hit(j)
       THEN CHOOSE j \in 1..Len(runs) : hit(j) /\ \A k \in 1..(j - 1) : ~hit(k)
       ELSE 0

\* boot.stream.read(n) at the stream position, appended to the output buffer
StreamRead(v, n) ==
    [v EXCEPT !.out = @ \o [k \in 1..n |->
                              IF v.spos # Elsewhere /\ (v.spos + k - 1) \in DOMAIN v.data
                              THEN v.data[v.spos + k - 1] ELSE ForeignCell],
              !.spos = IF @ = Elsewhere THEN @ ELSE @ + n]

\* boot.stream.write(s) at the stream position; wild records a write that does
\* not land in the cluster the chain maps the position to
StreamWrite(v, s) ==
    [v EXCEPT !.data = [p \in DOMAIN v.data |->
                          IF v.spos # Elsewhere /\ v.spos <= p /\ p < v.spos + Len(s)
                          THEN s[p - v.spos + 1] ELSE v.data[p]],
              !.wild = @ \/ (Len(s) > 0 /\ (v.spos = Elsewhere \/ v.spos < 0
                                              \/ v.spos + Len(s) - 1 \notin DOMAIN v.data)),
              !.spos = IF @ = Elsewhere THEN @ ELSE @ + Len(s)]

\* the loop of FAT.alloc(runs_map, count) on the runs map of the chain in use;
\* findfree() coming back empty-handed makes the loop run away
RECURSIVE AllocLoop(_, _, _)
AllocLoop(v, count, last) ==
    LET runs == v.ch.runs
        lr == IF Len(runs) > 0 THEN runs[Len(runs)] ELSE <<0, 0>>
        Grown(w, i, n) ==
            [w EXCEPT !.ch.runs = IF Len(runs) > 0 /\ i = lr[1] + lr[2]
                                  THEN MapSet(@, lr[1], n + lr[2])
                                  ELSE MapSet(@, i, n)]
        Linked(w, i) == IF Len(runs) > 0 THEN SetItem(w, lr[1] + lr[2] - 1, i) ELSE w
        Marked(r) ==
            IF r.n <= 0 THEN [r.v EXCEPT !.raised = TRUE]
            ELSE AllocLoop(Grown(Linked(MarkRun(r.v, r.i, r.n, FALSE), r.i), r.i, r.n),
                           count - r.n, r.i + r.n - 1)
    IN IF v.raised THEN v
       ELSE IF count = 0 THEN SetItem(v, last, LAST)
       ELSE Marked(FindFree(v, count))

\* FAT.alloc(runs_map, count)
Alloc(v, count) ==
    LET Checked(w) == IF w.free_clusters < count \/ count <= 0
                      THEN [w EXCEPT !.raised = TRUE]
                      ELSE w
    IN AllocLoop(Checked(MapCompact(v)), count, 0)

\* the loop of FAT.free(start)
RECURSIVE FreeLoop(_, _)
FreeLoop(v, start) ==
    LET Onward(w, r) == IF IsLast(r[2]) THEN w ELSE FreeLoop(w, r[2])
        Freed(w, r) == [w EXCEPT !.free_clusters = @ + r[1],
                                 !.free_clusters_map = MapSet(@, start, r[1])]
        Run(r) == Onward(Freed(MarkRun(v, start, r[1], TRUE), r), r)
    IN Run(CountRun(v, start, 1))

\* FAT.free(start)
Free(v, start) ==
    IF start < 2 \/ start > RealLast(v) THEN v
    ELSE FreeLoop([v EXCEPT !.free_clusters_flag = 1], start)

\* Chain._get_frags(): the loop ends on the mark LAST or on a run that ends
\* where it starts; fuel bounds a loop that does not end
RECURSIVE GetFrags(_, _, _)
GetFrags(v, start, fuel) ==
    LET Run(r) ==
            IF r[2] = LAST \/ r[2] = start + r[1] - 1
            THEN [v EXCEPT !.ch.runs = MapSet(@, start, r[1])]
            ELSE IF fuel = 0 THEN [v EXCEPT !.raised = TRUE]
            ELSE GetFrags([v EXCEPT !.ch.runs = MapSet(@, start, r[1])], r[2], fuel - 1)
    IN Run(CountRun(v, start, 1))

\* Chain.__init__(boot, fat, cluster, size)
ChainOpen(v, cluster, size) ==
    LET Framed(w) == IF cluster = 0 THEN w ELSE GetFrags(w, cluster, w.size)
        Sized(n) ==
            Framed([v EXCEPT !.ch = [NoChain EXCEPT !.start = cluster,
                                                    !.llcn = cluster,
                                                    !.size = n,
                                                    !.filesize = IF size # 0 THEN size ELSE n]])
        Counted(c) == IF c.hang THEN [v EXCEPT !.raised = TRUE]
                      ELSE Sized(c.n * ClusterBytes)
    IN IF cluster # 0 THEN Counted(Count(v, cluster, 1))
       ELSE Sized(Ceil(size, ClusterBytes) * ClusterBytes)

\* Chain._alloc(count)
ChainAlloc(v, count) ==
    LET Done(w) ==
            IF w.raised THEN w
            ELSE [w EXCEPT !.ch.start = IF @ = 0 THEN w.ch.runs[1][1] ELSE @,
                           !.ch.nofat = (Len(w.ch.runs) = 1),
                           !.ch.size = @ + count * ClusterBytes]
    IN Done(Alloc(v, count))

\* the clusters Chain.seek and Chain.write allocate when the position gets
\* past the size of the chain: count is 0 when it does not
ChainExtend(v, count) == IF v.raised \/ count <= 0 THEN v ELSE ChainAlloc(v, count)

\* Chain.seek(offset): allocates up to the position, then maps its VCN to an LCN;
\* a VCN the runs do not hold leaves the device stream where it was
ChainSeek(v, offset) ==
    LET Located(w, vcn, j) ==
            IF j = 0 THEN [w EXCEPT !.spos = Elsewhere]
            ELSE [w EXCEPT !.spos = Cl2Offset(w.ch.runs[j][1] + vcn - RunsLen(w.ch.runs, j - 1))
                                      + (w.ch.pos % ClusterBytes),
                           !.ch.lvcn = vcn,
                           !.ch.llcn = w.ch.runs[j][1] + vcn - RunsLen(w.ch.runs, j - 1)]
        Mapped(w) == IF w.raised THEN w
                     ELSE Located(w, w.ch.pos \div ClusterBytes,
                                  RunOfVcn(w.ch.runs, w.ch.pos \div ClusterBytes))
    IN IF v.raised THEN v
       ELSE Mapped(ChainExtend([v EXCEPT !.ch.pos = offset],
                               IF offset > v.ch.size
                               THEN Ceil(offset, ClusterBytes) - (v.ch.size \div ClusterBytes)
                               ELSE 0))

\* self.seek(self.pos) in Chain.read and Chain.write
ChainSync(v) == IF v.raised THEN v ELSE ChainSeek(v, v.ch.pos)

\* Chain.maxrun4len(length): the bytes to the end of the run the position is in
MaxRun4Len(v, length) ==
    LET n == Ceil(length, ClusterBytes)
        runs == v.ch.runs
        In(j) ==
            [v |-> [v EXCEPT !.ch.lvcn = @ + n,
                             !.ch.llcn = IF n < runs[j][1] + runs[j][2] - v.ch.llcn
                                         THEN v.ch.llcn + n
                                         ELSE IF j = Len(runs) THEN LAST
                                         ELSE runs[j + 1][1]],
             chunk |-> Min(n, runs[j][1] + runs[j][2] - v.ch.llcn) * ClusterBytes]
        Found(j) == IF j = 0 THEN [v |-> [v EXCEPT !.raised = TRUE], chunk |-> 0]
                    ELSE In(j)
    IN Found(RunOfLcn(runs, v.ch.llcn))

\* Chain.read() once the stream is at the position: todo is the size left to
\* read, in one piece from a contiguous chain, run by run from the others
RECURSIVE ReadLoop(_)
ReadLoop(v) ==
    LET Room(r) == Min(r.v.todo, r.chunk - (r.v.ch.pos % ClusterBytes))
        Took(r) ==
            IF r.v.raised THEN r.v
            ELSE IF Room(r) <= 0 THEN [r.v EXCEPT !.raised = TRUE]
            ELSE [StreamRead(r.v, Room(r)) EXCEPT !.ch.pos = @ + Room(r),
                                                  !.todo = @ - Room(r)]
    IN IF v.raised \/ v.todo = 0 THEN v
       ELSE IF v.ch.nofat
       THEN [StreamRead(v, v.todo) EXCEPT !.ch.pos = @ + v.todo, !.todo = 0]
       ELSE ReadLoop(ChainSync(Took(MaxRun4Len(v, v.todo))))

\* Chain.read(size): the bytes read are appended to out
ChainRead(v, size0) ==
    LET want == IF size0 < 0 THEN v.ch.filesize ELSE size0
        size == IF v.ch.pos + want > v.ch.filesize
                THEN Max(0, v.ch.filesize - v.ch.pos)
                ELSE want
    IN IF v.raised \/ size = 0 THEN v
       ELSE ReadLoop(ChainSync([v EXCEPT !.todo = size]))

\* Chain.write() once the stream is at the position: buf is what is left to
\* write, fresh tells that clusters were allocated; a contiguous chain returns
\* before the tip of the clusters just allocated is blanked
RECURSIVE WriteLoop(_)
WriteLoop(v) ==
    LET Room(r) == Min(Len(r.v.buf), r.chunk - (r.v.ch.pos % ClusterBytes))
        Put(r) ==
            IF r.v.raised THEN r.v
            ELSE IF Room(r) <= 0 THEN [r.v EXCEPT !.raised = TRUE]
            ELSE [StreamWrite(r.v, SubSeq(r.v.buf, 1, Room(r)))
                     EXCEPT !.ch.pos = @ + Room(r),
                            !.buf = SubSeq(@, Room(r) + 1, Len(@))]
        Sized(w) == [w EXCEPT !.ch.filesize = Max(@, w.ch.pos)]
        Blank(w) == IF w.fresh /\ w.ch.pos < w.ch.size
                    THEN StreamWrite(w, ZeroCells(w.ch.size - w.ch.pos)) ELSE w
    IN IF v.raised THEN v
       ELSE IF v.ch.nofat
       THEN [StreamWrite(v, v.buf) EXCEPT !.ch.pos = @ + Len(v.buf),
                                          !.ch.filesize = Max(@, v.ch.pos + Len(v.buf)),
                                          !.buf = <<>>]
       ELSE IF Len(v.buf) = 0 THEN Blank(Sized(v))
       ELSE WriteLoop(ChainSync(Put(MaxRun4Len(v, Len(v.buf)))))

\* Chain.write(s)
ChainWrite(v, s) ==
    IF Len(s) = 0 \/ v.raised THEN v
    ELSE WriteLoop(ChainSync(ChainExtend(
             [v EXCEPT !.buf = s, !.fresh = (v.ch.pos + Len(s) > v.ch.size)],
             IF v.ch.pos + Len(s) > v.ch.size
             THEN Ceil(v.ch.pos + Len(s) - v.ch.size, ClusterBytes)
             ELSE 0)))

\* the loop of Chain.trunc(): pops the runs from the last one
RECURSIVE TruncLoop(_, _)
TruncLoop(v, n) ==
    LET runs == v.ch.runs
        start == runs[Len(runs)][1]
        length == runs[Len(runs)][2]
        rest == SubSeq(runs, 1, Len(runs) - 1)
        Tailed(w) ==
            IF w.raised \/ n # length THEN w
            ELSE IF Len(rest) = 0 THEN [w EXCEPT !.raised = TRUE]
            ELSE SetItem(w, rest[Len(rest)][1] + rest[Len(rest)][2] - 1, LAST)
        Part(w) ==
            IF w.raised THEN w
            ELSE [SetItem(w, start + length - n - 1, LAST)
                     EXCEPT !.ch.runs = MapSet(rest, start, length - n)]
    IN IF n = 0 \/ v.raised THEN v
       ELSE IF Len(runs) = 0 THEN [v EXCEPT !.raised = TRUE]
       ELSE IF n >= length
       THEN TruncLoop(Tailed(MarkRun([v EXCEPT !.ch.runs = rest], start, length, TRUE)),
                      n - length)
       ELSE Part(MarkRun([v EXCEPT !.ch.runs = rest], start + length - n, n, TRUE))

\* Chain.trunc(): cuts the chain after the cluster of the position
ChainTrunc(v) ==
    LET Fin(w) == IF w.raised THEN w
                  ELSE [w EXCEPT !.ch.nofat = (Len(w.ch.runs) = 1)]
        Cut(x, n) ==
            IF n = 0 THEN v
            ELSE Fin(TruncLoop([v EXCEPT !.ch.size = (x + 1) * ClusterBytes,
                                         !.ch.filesize = v.ch.pos], n))
    IN Cut(v.ch.pos \div ClusterBytes,
           Ceil(v.ch.size, ClusterBytes) - (v.ch.pos \div ClusterBytes) - 1)

(***************************************************************************)
(* Directory entries.  An entry object holds its slot as last packed       *)
(* (_buf: the name or the erased mark e5, bstart, bsize) and the           *)
(* attributes set on it since (start, size); sname tells what the cached   *)
(* attribute sName holds: nothing yet, the name, or a name read from an    *)
(* erased slot.  del is a ghost: erase() was called on the entry; w is a   *)
(* ghost: the bytes last written at each offset of the file; cut is a      *)
(* ghost: ftruncate was called on the file.                                *)
(***************************************************************************)
NewEntry(name, pos) ==
    [name |-> name, e5 |-> FALSE, sname |-> "unread", start |-> 0, size |-> 0,
     bstart |-> 0, bsize |-> 0, isdir |-> FALSE, pos |-> pos, del |-> FALSE,
     w |-> <<>>, cut |-> FALSE]

\* FATDirentry.pack(): rebuilds the slot from the attributes; getattr reads an
\* attribute from the slot the first time and caches it
Pack(e) ==
    LET Cached(sn) == [e EXCEPT !.sname = sn, !.e5 = (sn = "e5"),
                                !.bstart = e.start, !.bsize = e.size]
    IN Cached(IF e.sname = "unread" THEN (IF e.e5 THEN "e5" ELSE "name") ELSE e.sname)

\* the 32 bytes of the slot of an entry, as a cell of the table
SlotCell(e) ==
    [t |-> "slot", name |-> e.name, e5 |-> e.e5, start |-> e.bstart,
     size |-> e.bsize, isdir |-> e.isdir]

\* a cell of a table read as a slot: bytes of a file read as a slot give a
\* used slot with a meaningless name
CellSlot(c) ==
    IF c.t = "slot" THEN c
    ELSE [t |-> "slot", name |-> "E5", e5 |-> FALSE, start |-> 0, size |-> 0,
          isdir |-> FALSE]

\* FATDirentry.ShortName().lower(): read from the slot
ShortName(e) == IF e.e5 THEN "E5" ELSE Lower(e.name)

NoNames == [k \in NameKeys |-> 0]

\* a cluster that no Dirtable was opened on; Handle is the unique Handle of the
\* directory (none, valid, invalid), stream its File, Entry and Dir its slot
\* and the table that holds it
NoDir ==
    [reg |-> FALSE, Names |-> NoNames, Handle |-> "none", slots_map |-> <<>>,
     Open |-> <<>>, stream |-> NoChain, Entry |-> 0, Dir |-> 0]

\* the volume once the FAT object is built: nothing opened yet.  ch is the
\* Chain a call works on, out what it read, ret what it returns, found the
\* table opendir() found; todo, buf and fresh are the locals of Chain.read and
\* Chain.write
VolRecord(fat, data) ==
    [size |-> fat.size, offset2 |-> fat.offset2, bootfat2 |-> fat.bootfat2,
     area |-> fat.area, free_clusters |-> fat.free_clusters,
     free_clusters_map |-> fat.free_clusters_map,
     free_clusters_flag |-> fat.free_clusters_flag,
     raised |-> FALSE, wild |-> FALSE,
     data |-> data, spos |-> Elsewhere, ch |-> NoChain, out |-> <<>>, ret |-> 0,
     needs_compact |-> FALSE, eoc |-> LAST,
     todo |-> 0, buf |-> <<>>, fresh |-> FALSE, found |-> 0,
     ents |-> <<>>, hs |-> <<>>, dirs |-> <<>>,
     dirtable |-> [c \in 2..(fat.size + 1) |-> NoDir]]

\* Dirtable._update_dirtable(it)
UpdateDirtable(v, dk, e) ==
    [v EXCEPT !.dirtable[dk].Names[ShortName(v.ents[e])] = e]

\* Dirtable.find(name): 0 stands for None
Find(v, dk, name) == v.dirtable[dk].Names[Lower(name)]

\* the cells of a chain in the order of its runs, up to its size
ChainCells(v, c) ==
    LET phys(p, j) == Cl2Offset(c.runs[j][1] + (p \div ClusterBytes) - RunsLen(c.runs, j - 1))
                      + (p % ClusterBytes)
        at(q) == IF q \in DOMAIN v.data THEN v.data[q] ELSE ForeignCell
        cell(p, j) == IF j = 0 THEN ForeignCell ELSE at(phys(p, j))
    IN [k \in 1..c.filesize |-> cell(k - 1, RunOfVcn(c.runs, (k - 1) \div ClusterBytes))]

\* the slots Dirtable.iterator() yields: those in use before the first blank one
RECURSIVE LiveSlots(_, _)
LiveSlots(cells, k) ==
    IF k > Len(cells) \/ cells[k].t = "zero" THEN <<>>
    ELSE IF CellSlot(cells[k]).e5 THEN LiveSlots(cells, k + 1)
    ELSE <<CellSlot(cells[k])>> \o LiveSlots(cells, k + 1)

\* stream.seek(pos); stream.write(s) on the table of the directory dk
DirWrite(v, dk, pos, s) ==
    LET Kept(w) == [w EXCEPT !.dirtable[dk].stream = w.ch, !.ch = NoChain]
    IN IF v.raised THEN v
       ELSE Kept(ChainWrite(ChainSeek([v EXCEPT !.ch = v.dirtable[dk].stream], pos), s))

\* stream.seek(Entry._pos); stream.write(Entry.pack()) in the table dk
WriteSlot(v, e, dk) ==
    IF v.raised THEN v
    ELSE DirWrite([v EXCEPT !.ents[e] = Pack(@)], dk, v.ents[e].pos,
                  <<SlotCell(Pack(v.ents[e]))>>)

\* Dirtable.findfree(32): the first free slot; pos is its offset
DirFindFree(v, dk) ==
    LET m == v.dirtable[dk].slots_map
        Took(start, rl) ==
            [v |-> [v EXCEPT !.dirtable[dk].slots_map =
                               IF 1 < rl THEN MapSet(MapDel(m, start), start + 1, rl - 1)
                               ELSE MapDel(m, start)],
             pos |-> start]
        First(start) == Took(start, MapGet(m, start))
    IN IF Len(m) = 0 THEN [v |-> [v EXCEPT !.raised = TRUE], pos |-> 0]
       ELSE First(CHOOSE k \in {m[j][1] : j \in 1..Len(m)} :
                      \A j \in 1..Len(m) : k <= m[j][1])

\* Dirtable.map_compact(): once for each Dirtable object
DirMapCompact(v, dk) ==
    IF ~v.needs_compact THEN v
    ELSE [v EXCEPT !.dirtable[dk].slots_map = CompactLoop(@), !.needs_compact = FALSE]

\* the loop of Dirtable.map_slots(): ff, rl are first_free, run_length
RECURSIVE MapSlotsFrom(_, _, _, _, _, _)
MapSlotsFrom(v, dk, cells, pos, ff, rl) ==
    LET Used(w, c) ==
            UpdateDirtable(
                [w EXCEPT !.ents = Append(@, [NewEntry(c.name, pos) EXCEPT
                                                 !.start = c.start, !.size = c.size,
                                                 !.bstart = c.start, !.bsize = c.size,
                                                 !.isdir = c.isdir])],
                dk, Len(w.ents) + 1)
    IN IF pos >= Len(cells) \/ cells[pos + 1].t = "zero"
       THEN [v EXCEPT !.dirtable[dk].slots_map = MapSet(@, pos, DirMaxSlots - pos)]
       ELSE IF CellSlot(cells[pos + 1]).e5
       THEN MapSlotsFrom(v, dk, cells, pos + 1,
                         IF ff < 0 THEN pos ELSE ff, IF ff < 0 THEN 1 ELSE rl + 1)
       ELSE MapSlotsFrom(Used(IF ff > -1
                              THEN [v EXCEPT !.dirtable[dk].slots_map = MapSet(@, ff, rl)]
                              ELSE v,
                              CellSlot(cells[pos + 1])),
                         dk, cells, pos + 1, -1, rl)

\* Dirtable.__init__(boot, fat, startcluster): counts the chain, opens it,
\* registers the cluster and maps its slots when that was not done yet; the
\* new object needs a compaction unless map_slots() just did it
DirtableInit(v, start) ==
    LET Known(w) ==
            IF w.raised \/ w.dirtable[start].reg THEN w
            ELSE [w EXCEPT !.dirtable[start] = [NoDir EXCEPT !.reg = TRUE,
                                                            !.stream = w.ch],
                           !.dirs = Append(@, start)]
        Mapped(w) ==
            IF w.raised THEN [w EXCEPT !.ch = NoChain]
            ELSE IF Len(w.dirtable[start].slots_map) # 0
            THEN [w EXCEPT !.needs_compact = TRUE, !.ch = NoChain]
            ELSE DirMapCompact(
                     MapSlotsFrom([w EXCEPT !.needs_compact = TRUE, !.ch = NoChain],
                                  start, ChainCells(w, w.ch), 0, -1, -1),
                     start)
    IN IF v.raised THEN v
       ELSE IF Count(v, start, 1).hang THEN [v EXCEPT !.raised = TRUE]
       ELSE Mapped(Known(ChainOpen(v, start, Count(v, start, 1).n * ClusterBytes)))

\* the start cluster of the directory a name of the table dk names, 0 if the
\* table holds no directory of that name
DirStart(v, dk, name) ==
    IF Find(v, dk, name) # 0 /\ v.ents[Find(v, dk, name)].isdir
    THEN v.ents[Find(v, dk, name)].start
    ELSE 0

\* Dirtable.opendir(name) for a name of this table: found is the start cluster
\* of the directory, 0 for None.  A directory whose entry holds the start 0
\* opens the fixed root of FAT12/16, which this volume has not: the run ends
Opendir(v, dk, name) ==
    LET start == DirStart(v, dk, name)
        Handled(w) ==
            IF w.raised THEN [w EXCEPT !.found = 0]
            ELSE IF w.dirtable[start].Handle # "none" THEN [w EXCEPT !.found = start]
            ELSE [w EXCEPT !.dirtable[start].Handle = "valid",
                           !.dirtable[start].Entry = Find(v, dk, name),
                           !.dirtable[start].Dir = dk,
                           !.found = start]
    IN IF v.raised THEN v
       ELSE IF Find(v, dk, name) = 0 \/ ~v.ents[Find(v, dk, name)].isdir
       THEN [v EXCEPT !.found = 0]
       ELSE IF start \notin DOMAIN v.dirtable THEN [v EXCEPT !.raised = TRUE, !.found = 0]
       ELSE Handled(DirtableInit(v, start))

\* Dirtable.open(name): ret is the handle, 0 when the result is not valid
DirOpen(v, dk, name) ==
    LET e == Find(v, dk, name)
        Got(w) ==
            IF w.raised THEN [w EXCEPT !.ch = NoChain, !.ret = 0]
            ELSE [w EXCEPT !.hs = Append(@, [IsValid |-> TRUE, IsReadOnly |-> TRUE,
                                             Entry |-> e, Dir |-> dk,
                                             File |-> w.ch, held |-> FALSE]),
                           !.dirtable[dk].Open = Append(@, Len(w.hs) + 1),
                           !.ch = NoChain,
                           !.ret = Len(w.hs) + 1]
    IN IF v.raised THEN v
       ELSE IF e = 0 THEN [v EXCEPT !.ret = 0]
       ELSE IF v.ents[e].isdir THEN [v EXCEPT !.ret = 0]
       ELSE Got(ChainOpen(v, v.ents[e].start, v.ents[e].size))

\* Dirtable.erase(name): ret is what it returns.  The test on the contents of
\* a directory asks whether the function next is among the entries left, and
\* it never is: it only needs the two entries it skips
Erase(v, dk, name) ==
    LET e == Find(v, dk, name)
        ent == v.ents[e]
        Checked(w) ==
            IF ~ent.isdir \/ w.raised THEN w
            ELSE IF w.found = 0 THEN [w EXCEPT !.raised = TRUE]
            ELSE IF Len(LiveSlots(ChainCells(w, w.dirtable[w.found].stream), 1)) < 2
            THEN [w EXCEPT !.raised = TRUE]
            ELSE [w EXCEPT !.needs_compact = v.needs_compact]
        Invalidated(w) ==
            IF w.raised THEN w
            ELSE IF ent.start \in DOMAIN w.dirtable
                    /\ w.dirtable[ent.start].reg
                    /\ w.dirtable[ent.start].Handle # "none"
            THEN [w EXCEPT !.dirtable[ent.start].Handle = "invalid"]
            ELSE w
        Unlinked(w) ==
            IF w.raised THEN w
            ELSE IF w.dirtable[dk].Names[ShortName(ent)] = 0
            THEN [w EXCEPT !.ents[e].start = 0, !.ents[e].size = 0, !.raised = TRUE]
            ELSE [w EXCEPT !.ents[e].start = 0, !.ents[e].size = 0,
                           !.dirtable[dk].Names[ShortName(ent)] = 0,
                           !.ents[e].e5 = TRUE, !.ents[e].del = TRUE]
        Mapped(w) ==
            IF w.raised THEN w
            ELSE DirMapCompact([w EXCEPT !.dirtable[dk].slots_map = MapSet(@, ent.pos, 1)],
                               dk)
        Freed(w) ==
            IF w.raised THEN w
            ELSE [(IF ent.start # 0 THEN Free(w, ent.start) ELSE w) EXCEPT !.ret = 1]
    IN IF v.raised THEN v
       ELSE IF e = 0 THEN [v EXCEPT !.ret = 0]
       ELSE Freed(Mapped(DirWrite(
                Unlinked(Invalidated(Checked(
                    IF ent.isdir THEN Opendir(v, dk, ShortName(ent)) ELSE v))),
                dk, ent.pos, <<SlotCell([ent EXCEPT !.e5 = TRUE])>>)))

\* Dirtable._alloc(name, clusters): the new handle is the last of hs
DirAlloc(v, dk, name, clusters, isdir) ==
    LET Slot(r, file) ==
            IF r.v.raised THEN r.v
            ELSE [r.v EXCEPT !.ents = Append(@, [NewEntry(name, r.pos) EXCEPT
                                                    !.start = file.start,
                                                    !.isdir = isdir]),
                             !.hs = Append(@, [IsValid |-> TRUE, IsReadOnly |-> FALSE,
                                               Entry |-> Len(r.v.ents) + 1, Dir |-> dk,
                                               File |-> file, held |-> FALSE])]
        Found(w) ==
            IF w.raised THEN [w EXCEPT !.ch = NoChain]
            ELSE Slot(DirFindFree([w EXCEPT !.ch = NoChain], dk), w.ch)
    IN IF v.raised THEN v
       ELSE IF clusters > 0
       THEN Found(ChainSeek(ChainSeek([v EXCEPT !.ch = NoChain], clusters * ClusterBytes), 0))
       ELSE Found([v EXCEPT !.ch = NoChain])

\* Dirtable.create(name): the handle made is the last of hs; a file of that
\* name is opened, its handle marked invalid, and erased first
Create(v, dk, name) ==
    LET opened == Find(v, dk, name) # 0 /\ ~v.ents[Find(v, dk, name)].isdir
        Probed(w) == IF w.raised \/ w.ret = 0 THEN w
                     ELSE [w EXCEPT !.hs[w.ret].IsValid = FALSE]
        Listed(w) ==
            IF w.raised THEN w
            ELSE [UpdateDirtable(w, dk, Len(w.ents))
                     EXCEPT !.dirtable[dk].Open = Append(@, Len(w.hs))]
    IN IF v.raised THEN v
       ELSE Listed(WriteSlot(
                DirAlloc(IF opened THEN Erase(Probed(DirOpen(v, dk, name)), dk, name) ELSE v,
                         dk, name, 0, FALSE),
                Len(v.ents) + 1, dk))

WithFile(v, h) == [v EXCEPT !.ch = v.hs[h].File]
KeepFile(v, h) == [v EXCEPT !.hs[h].File = v.ch, !.ch = NoChain]

\* the end of Handle.seek, write and ftruncate
NoteSize(v, h) ==
    UpdateDirtable([v EXCEPT !.ents[v.hs[h].Entry].size = v.hs[h].File.filesize],
                   v.hs[h].Dir, v.hs[h].Entry)

\* Handle.seek(offset)
HandleSeek(v, h, offset) ==
    LET Noted(w) == IF w.raised THEN w ELSE NoteSize(w, h)
    IN Noted(KeepFile(ChainSeek(WithFile(v, h), offset), h))

\* Handle.read(size)
HandleRead(v, h, size) == KeepFile(ChainRead(WithFile(v, h), size), h)

\* Handle.write(s)
HandleWrite(v, h, s) ==
    LET Noted(w) == IF w.raised THEN w
                    ELSE NoteSize([w EXCEPT !.hs[h].IsReadOnly = FALSE], h)
    IN Noted(KeepFile(ChainWrite(WithFile(v, h), s), h))

\* Handle.ftruncate(length, free)
HandleFtruncate(v, h, length, free) ==
    LET Sized(w) == IF w.raised THEN w
                    ELSE NoteSize([w EXCEPT !.hs[h].File.filesize = length], h)
    IN IF free = 0 THEN Sized(KeepFile(ChainSeek(WithFile(v, h), length), h))
       ELSE KeepFile(ChainTrunc(WithFile(
                Sized(KeepFile(ChainSeek(WithFile(v, h), length), h)), h)), h)

\* the end of Handle.close: the slot is packed and written in the table that
\* holds it, and the name index told
CloseSlot(v, e, dk) ==
    LET Noted(w) == IF w.raised THEN w ELSE UpdateDirtable(w, dk, e)
    IN Noted(WriteSlot(v, e, dk))

\* Handle.close() on a file handle: a handle whose slot holds the erased mark
\* frees the chain and stays valid
HandleClose(v, h) ==
    LET e == v.hs[h].Entry
        dk == v.hs[h].Dir
        file == v.hs[h].File
        Gone(w) ==
            IF w.raised THEN w
            ELSE [w EXCEPT !.hs[h].IsValid = FALSE,
                           !.dirtable[dk].Open = SelectSeq(@, LAMBDA x : x # h)]
    IN IF v.raised THEN v
       ELSE IF ~v.hs[h].IsValid \/ v.hs[h].IsReadOnly THEN v
       ELSE IF ~v.ents[e].isdir /\ v.ents[e].e5 /\ file.start # 0
       THEN UpdateDirtable(Free([v EXCEPT !.ents[e].start = file.start], file.start), dk, e)
       ELSE Gone(CloseSlot([v EXCEPT !.ents[e].start = file.start,
                                     !.ents[e].size = IF v.ents[e].isdir THEN @
                                                      ELSE file.filesize],
                           e, dk))

\* Handle.close() on the unique Handle of the directory dk
DirHandleClose(v, dk) ==
    LET d == v.dirtable[dk]
        Gone(w) == IF w.raised THEN w ELSE [w EXCEPT !.dirtable[dk].Handle = "invalid"]
    IN IF v.raised THEN v
       ELSE IF d.Handle # "valid" THEN v
       ELSE Gone(CloseSlot([v EXCEPT !.ents[d.Entry].start = d.stream.start],
                           d.Entry, d.Dir))

\* Dirtable.mkdir(name), the dot entries: . and .. written through the handle
\* h of the new directory, then the rest of its cluster blanked
MkdirDots(v, h, dk) ==
    LET Dot(nm, start) ==
            [t |-> "slot", name |-> nm, e5 |-> FALSE, start |-> start, size |-> 0,
             isdir |-> TRUE]
    IN IF v.raised THEN v
       ELSE KeepFile(
                ChainWrite(
                    ChainWrite(
                        ChainWrite(WithFile(v, h),
                                   <<Dot(".", v.ents[v.hs[h].Entry].start)>>),
                        <<Dot("..", IF dk = RootCluster THEN 0
                                    ELSE v.dirtable[dk].stream.start)>>),
                    ZeroCells(ClusterBytes - 2)),
                h)

\* Dirtable.mkdir(name), the end: the closed handle h is recorded as the unique
\* Handle of the new table, and the directory opened
MkdirRecord(v, h, dk, name) ==
    IF v.raised THEN v
    ELSE Opendir([v EXCEPT !.dirtable[v.hs[h].File.start] =
                               [NoDir EXCEPT !.reg = TRUE, !.Handle = "invalid",
                                             !.slots_map = <<<<2, DirMaxSlots - 2>>>>,
                                             !.stream = v.hs[h].File,
                                             !.Entry = v.hs[h].Entry, !.Dir = dk],
                           !.dirs = IF \E j \in 1..Len(@) : @[j] = v.hs[h].File.start
                                    THEN @ ELSE Append(@, v.hs[h].File.start),
                           !.hs = SubSeq(@, 1, h - 1)],
                 dk, name)

\* Dirtable.mkdir(name) in the table dk
Mkdir(v, dk, name) ==
    LET Noted(w) == IF w.raised THEN w ELSE UpdateDirtable(w, dk, Len(v.ents) + 1)
    IN IF v.raised THEN v
       ELSE IF Find(v, dk, name) # 0 /\ v.ents[Find(v, dk, name)].isdir
       THEN Opendir(v, dk, name)
       ELSE MkdirRecord(
                HandleClose(
                    Noted(MkdirDots(
                        WriteSlot(DirAlloc([v EXCEPT !.found = 0], dk, name, 1, TRUE),
                                  Len(v.ents) + 1, dk),
                        Len(v.hs) + 1, dk)),
                    Len(v.hs) + 1),
                Len(v.hs) + 1, dk, name)

\* the for loop of Dirtable.rmtree() over target.iterator(): the slot at pos
\* of the table t is read when the loop gets there
RECURSIVE RmLoop(_, _, _)
RmLoop(v, t, pos) ==
    LET cells == ChainCells(v, v.dirtable[t].stream)
        c == CellSlot(cells[pos + 1])
        Keep(w) == [w EXCEPT !.needs_compact = v.needs_compact]
    IN IF v.raised THEN v
       ELSE IF pos >= Len(cells) THEN v
       ELSE IF cells[pos + 1].t = "zero" THEN v
       ELSE IF c.e5 \/ (c.isdir /\ c.name \in {".", ".."}) THEN RmLoop(v, t, pos + 1)
       ELSE IF c.isdir /\ DirStart(v, t, c.name) = 0 THEN [v EXCEPT !.raised = TRUE]
       ELSE RmLoop(Erase(IF c.isdir
                         THEN Keep(RmLoop(Opendir(v, t, c.name), DirStart(v, t, c.name), 0))
                         ELSE v,
                         t, c.name),
                   t, pos + 1)

\* Dirtable.rmtree(name) on the table dk
Rmtree(v, dk, name) ==
    LET Keep(w) == [w EXCEPT !.needs_compact = v.needs_compact]
    IN IF v.raised THEN v
       ELSE IF Find(v, dk, name) = 0 THEN [v EXCEPT !.ret = 0, !.found = 0]
       ELSE IF ~v.ents[Find(v, dk, name)].isdir THEN [v EXCEPT !.ret = 0, !.found = 0]
       ELSE Erase(Keep(RmLoop(Opendir(v, dk, name), DirStart(v, dk, name), 0)), dk, name)

\* Dirtable.flush() on the root: closes the handles of every table, in the
\* order the tables were registered
RECURSIVE CloseAll(_, _)
CloseAll(v, hl) ==
    IF Len(hl) = 0 \/ v.raised THEN v
    ELSE CloseAll(HandleClose(v, hl[1]), Tail(hl))

RECURSIVE FlushDirs(_, _)
FlushDirs(v, dl) ==
    LET Invalid(w) ==
            IF w.raised \/ w.dirtable[dl[1]].Handle = "none" THEN w
            ELSE [w EXCEPT !.dirtable[dl[1]].Handle = "invalid"]
    IN IF Len(dl) = 0 \/ v.raised THEN v
       ELSE FlushDirs(Invalid(DirHandleClose(CloseAll(v, v.dirtable[dl[1]].Open), dl[1])),
                      Tail(dl))

Flush(v) == FlushDirs(v, v.dirs)

\* openvolume(): the FAT object, then the Dirtable of the root
Mount(size, area, data) ==
    LET fat == [FatInit(size) EXCEPT
                   !.area = area,
                   !.free_clusters_map = MapFreeSpace(area, size),
                   !.free_clusters = RunsLen(MapFreeSpace(area, size),
                                             Len(MapFreeSpace(area, size)))]
        Rooted(w) == [w EXCEPT !.needs_compact = FALSE]
    IN Rooted(DirtableInit(VolRecord(fat, data), RootCluster))

(***************************************************************************)
(* Calls on a mounted volume.  gh records the last call: its name, the     *)
(* handle, table and name it was about, its arguments; calls counts the    *)
(* calls made, limit bounds them.  In a handle, held is a ghost: the       *)
(* caller got the handle and did not close it yet.                         *)
(***************************************************************************)
MaxFileCalls == 5    \* calls in one run on the files of a volume
MaxVolCalls == 5     \* calls in one run on the tree of a volume

Paths == {"."} \cup DirNames
SeekOffs == {0, ClusterBytes, 2 * ClusterBytes}
WriteLens == {1, ClusterBytes + 1}
TruncLens == {0, 1, ClusterBytes, ClusterBytes + 1, 2 * ClusterBytes}
EocMarks == {LAST, LAST + 7}

Call(op, h, dir, name, len, free) ==
    [op |-> op, calls |-> gh.calls + 1, limit |-> gh.limit, h |-> h, dir |-> dir,
     name |-> name, len |-> len, free |-> free]

\* the state a call starts from, and the one it leaves
Begin(v) == [v EXCEPT !.out = <<>>, !.ret = 0, !.needs_compact = FALSE]
End(v) == [v EXCEPT !.needs_compact = FALSE, !.ch = NoChain, !.todo = 0, !.buf = <<>>,
                    !.fresh = FALSE, !.found = 0]

\* the table a path names, left in found: the root object, or a new object
\* from root.opendir
At(v, path) ==
    IF path = "." THEN [v EXCEPT !.found = RootCluster]
    ELSE Opendir(v, RootCluster, path)

Ready == gh.calls < gh.limit /\ ~vol.raised
Held(h) == h \in 1..Len(vol.hs) /\ vol.hs[h].held

\* ghost: s written at the offset p of the bytes w
Patch(w, p, s) ==
    [k \in 1..Max(Len(w), p + Len(s)) |->
        IF p < k /\ k <= p + Len(s) THEN s[k - p]
        ELSE IF k <= Len(w) THEN w[k] ELSE UnknownCell]

\* ghost: the bytes w cut or extended to the length n
Resize(w, n) == [k \in 1..n |-> IF k <= Len(w) THEN w[k] ELSE UnknownCell]

\* a freshly formatted volume, then one that holds the file a of two clusters,
\* contiguous or not, its chain ended by the mark eoc
FreshData(size) == [p \in 0..(size * ClusterBytes - 1) |-> ZeroCell]

FileImage(size, second, eoc) ==
    LET fat == FatInit(size)
        slot(p) == IF p = 3 THEN second ELSE IF p = second THEN eoc ELSE fat.area[p]
    IN [area |-> [p \in DOMAIN fat.area |->
                    IF p \in {3, second} THEN slot(p)
                    ELSE IF p - fat.bootfat2 \in {3, second} THEN slot(p - fat.bootfat2)
                    ELSE fat.area[p]],
        data |-> [p \in 0..(size * ClusterBytes - 1) |->
                    IF p = 0
                    THEN [t |-> "slot", name |-> "a", e5 |-> FALSE, start |-> 3,
                          size |-> ClusterBytes + 1, isdir |-> FALSE]
                    ELSE IF Cl2Offset(3) <= p /\ p < Cl2Offset(3) + ClusterBytes
                    THEN ByteCell(1)
                    ELSE IF p = Cl2Offset(second) THEN ByteCell(1)
                    ELSE ZeroCell]]

InitFile ==
    /\ \E second \in {4, 5}, eoc \in EocMarks :
         LET img == FileImage(NumClusters, second, eoc)
             Set(v) == [v EXCEPT !.eoc = eoc,
                                 !.ents[1].w = [k \in 1..(ClusterBytes + 1) |-> ByteCell(1)]]
         IN vol = Set(Mount(NumClusters, img.area, img.data))
    /\ gh = [op |-> "mount", calls |-> 0, limit |-> MaxFileCalls, h |-> 0, dir |-> 0,
             name |-> "", len |-> 0, free |-> 0]
    /\ disk = DiskInit
    /\ shadow = <<>>
    /\ dres = [op |-> "none", good |-> TRUE, calls |-> 0]

InitVol ==
    /\ vol = Mount(NumClusters, FatInit(NumClusters).area, FreshData(NumClusters))
    /\ gh = [op |-> "mount", calls |-> 0, limit |-> MaxVolCalls, h |-> 0, dir |-> 0,
             name |-> "", len |-> 0, free |-> 0]
    /\ disk = DiskInit
    /\ shadow = <<>>
    /\ dres = [op |-> "none", good |-> TRUE, calls |-> 0]

\* table.create(name)
VolCreate ==
    \E path \in Paths, name \in FileNames :
        LET r == At(Begin(vol), path)
            Got(w) == IF w.raised THEN w ELSE [w EXCEPT !.hs[Len(w.hs)].held = TRUE]
        IN /\ Ready
           /\ Len(vol.hs) < MaxHandles
           /\ r.found # 0 /\ ~r.raised
           /\ vol' = End(Got(Create(r, r.found, name)))
           /\ gh' = Call("create", Len(vol'.hs), r.found, name, 0, 0)
           /\ UNCHANGED diskvars

\* table.create(name) of a name the table does not hold
VolCreateNew ==
    \E path \in Paths, name \in FileNames :
        LET r == At(Begin(vol), path)
            Got(w) == IF w.raised THEN w ELSE [w EXCEPT !.hs[Len(w.hs)].held = TRUE]
        IN /\ Ready
           /\ Len(vol.hs) < MaxHandles
           /\ r.found # 0 /\ ~r.raised
           /\ Find(r, r.found, name) = 0
           /\ vol' = End(Got(Create(r, r.found, name)))
           /\ gh' = Call("create", Len(vol'.hs), r.found, name, 0, 0)
           /\ UNCHANGED diskvars

\* table.open(name) on a file the caller does not hold a handle of
VolOpen ==
    \E path \in Paths, name \in FileNames :
        LET r == At(Begin(vol), path)
            Got(w) == IF w.raised THEN w ELSE [w EXCEPT !.hs[w.ret].held = TRUE]
        IN /\ Ready
           /\ Len(vol.hs) < MaxHandles
           /\ r.found # 0 /\ ~r.raised
           /\ Find(r, r.found, name) # 0
           /\ ~r.ents[Find(r, r.found, name)].isdir
           /\ \A h \in 1..Len(vol.hs) :
                  vol.hs[h].held => vol.hs[h].Entry # Find(r, r.found, name)
           /\ vol' = End(Got(DirOpen(r, r.found, name)))
           /\ gh' = Call("open", vol'.ret, r.found, name, 0, 0)
           /\ UNCHANGED diskvars

\* handle.seek(offset)
VolSeek ==
    \E h \in 1..MaxHandles, offset \in SeekOffs :
        /\ Ready
        /\ Held(h)
        /\ vol' = End(HandleSeek(Begin(vol), h, offset))
        /\ gh' = Call("seek", h, 0, "", offset, 0)
        /\ UNCHANGED diskvars

\* handle.write(s): the bytes written tell the call that wrote them
VolWrite ==
    \E h \in 1..MaxHandles, n \in WriteLens :
        LET s == [k \in 1..n |-> ByteCell((gh.calls % MaxTag) + 1)]
            Noted(w) == IF w.raised THEN w
                        ELSE [w EXCEPT !.ents[w.hs[h].Entry].w =
                                           Patch(@, vol.hs[h].File.pos, s)]
        IN /\ Ready
           /\ Held(h)
           /\ vol' = End(Noted(HandleWrite(Begin(vol), h, s)))
           /\ gh' = Call("write", h, 0, "", n, 0)
           /\ UNCHANGED diskvars

\* handle.read() from the start of the file, after handle.seek(0) or on a
\* handle that is at the start: the whole file, left in out
VolReadAll ==
    \E h \in 1..MaxHandles, rewind \in {0, 1} :
        /\ Ready
        /\ Held(h)
        /\ rewind = 1 \/ vol.hs[h].File.pos = 0
        /\ vol' = End(HandleRead(IF rewind = 1 THEN HandleSeek(Begin(vol), h, 0)
                                 ELSE Begin(vol),
                                 h, -1))
        /\ gh' = Call("readall", h, 0, "", rewind, 0)
        /\ UNCHANGED diskvars

\* handle.ftruncate(length, free)
VolFtruncate ==
    \E h \in 1..MaxHandles, length \in TruncLens, free \in {0, 1} :
        LET Noted(w) == IF w.raised THEN w
                        ELSE [w EXCEPT !.ents[w.hs[h].Entry].w = Resize(@, length),
                                       !.ents[w.hs[h].Entry].cut = TRUE]
        IN /\ Ready
           /\ Held(h)
           /\ vol' = End(Noted(HandleFtruncate(Begin(vol), h, length, free)))
           /\ gh' = Call("ftruncate", h, 0, "", length, free)
           /\ UNCHANGED diskvars

\* handle.close()
VolClose ==
    \E h \in 1..MaxHandles :
        /\ Ready
        /\ Held(h)
        /\ vol' = End([HandleClose(Begin(vol), h) EXCEPT !.hs[h].held = FALSE])
        /\ gh' = Call("close", h, 0, "", 0, 0)
        /\ UNCHANGED diskvars

\* table.erase(name)
VolErase ==
    \E path \in Paths, name \in FileNames \cup DirNames :
        LET r == At(Begin(vol), path)
        IN /\ Ready
           /\ r.found # 0 /\ ~r.raised
           /\ Find(r, r.found, name) # 0
           /\ vol' = End(Erase(r, r.found, name))
           /\ gh' = Call("erase", 0, r.found, name, 0, 0)
           /\ UNCHANGED diskvars

\* root.mkdir(name)
VolMkdir ==
    \E name \in DirNames :
        /\ Ready
        /\ Find(vol, RootCluster, name) = 0
        /\ vol' = End(Mkdir(Begin(vol), RootCluster, name))
        /\ gh' = Call("mkdir", 0, RootCluster, name, 0, 0)
        /\ UNCHANGED diskvars

\* root.rmtree(name)
VolRmtree ==
    \E name \in DirNames :
        /\ Ready
        /\ Find(vol, RootCluster, name) # 0
        /\ vol' = End(Rmtree(Begin(vol), RootCluster, name))
        /\ gh' = Call("rmtree", 0, RootCluster, name, 0, 0)
        /\ UNCHANGED diskvars

\* root.flush(): the caller holds no handle any more
VolFlush ==
    LET Let(w) == [w EXCEPT !.hs = [h \in 1..Len(@) |-> [@[h] EXCEPT !.held = FALSE]]]
    IN /\ Ready
       /\ gh.op # "flush"
       /\ vol' = End(Let(Flush(Begin(vol))))
       /\ gh' = Call("flush", 0, RootCluster, "", 0, 0)
       /\ UNCHANGED diskvars

NextFile ==
    VolOpen \/ VolCreateNew \/ VolSeek \/ VolWrite \/ VolReadAll \/ VolFtruncate \/ VolClose

SpecFile == InitFile /\ [][NextFile]_vars

NextVol ==
    VolCreate \/ VolOpen \/ VolWrite \/ VolClose \/ VolErase \/ VolMkdir \/ VolRmtree
        \/ VolFlush

SpecVol == InitVol /\ [][NextVol]_vars

\* the clusters of a runs map, in order
RECURSIVE RunClusters(_)
RunClusters(runs) ==
    IF Len(runs) = 0 THEN <<>>
    ELSE [k \in 1..runs[1][2] |-> runs[1][1] + k - 1] \o RunClusters(Tail(runs))

\* what handle.seek(0); handle.read() returns in the state v
WholeFile(v, h) == HandleRead(HandleSeek([v EXCEPT !.out = <<>>], h, 0), h, -1).out

\* C9: the runs map built when a chain is opened covers exactly the clusters of
\* the chain, whichever end-of-chain mark in LAST..LAST+7 ends it: the run
\* lengths add up to the clusters of the chain and the last cluster of the last
\* run is the one that holds the mark.
C9_RunsCoverChain ==
    (gh.op = "open" /\ gh.h # 0 /\ ~vol.raised /\ vol.hs[gh.h].File.start # 0) =>
        LET c == vol.hs[gh.h].File
            lr == c.runs[Len(c.runs)]
        IN /\ RunsLen(c.runs, Len(c.runs)) = Count(vol, c.start, 1).n
           /\ lr[1] + lr[2] - 1 \in 2..RealLast(vol)
           /\ IsLast(vol.area[lr[1] + lr[2] - 1])

C9_Witness ==
    /\ gh.op = "open" /\ gh.h # 0 /\ ~vol.raised
    /\ vol.eoc = LAST + 7
    /\ vol.hs[gh.h].File.start = 3

\* C7: ftruncate(L, free=1) with L from 0 to the size of the file leaves
\* ceil(L / cluster) clusters in the runs, frees the clusters past them, sets
\* the slot of the new tail to LAST, and a full read then returns the first L
\* bytes.  Stated on chains ended by the mark LAST.
C7_TruncateFrees ==
    [][(gh'.op = "ftruncate" /\ gh'.free = 1 /\ vol.eoc = LAST
          /\ gh'.len <= vol.hs[gh'.h].File.filesize) =>
        LET h == gh'.h
            L == gh'.len
            was == RunClusters(vol.hs[h].File.runs)
            now == RunClusters(vol'.hs[h].File.runs)
            keep == Ceil(L, ClusterBytes)
        IN /\ ~vol'.raised
           /\ Len(now) = keep
           /\ \A k \in 1..Len(was) : k > keep => vol'.area[was[k]] = 0
           /\ keep > 0 => (keep <= Len(was) /\ vol'.area[was[keep]] = LAST)
           /\ WholeFile(vol', h) = SubSeq(WholeFile(vol, h), 1, L)]_vars

C7_Witness ==
    /\ gh.op = "ftruncate" /\ gh.free = 1 /\ vol.eoc = LAST /\ ~vol.raised
    /\ gh.len = ClusterBytes
    /\ Len(vol.hs[gh.h].File.runs) > 0

\* C3: after seek, write, close and reopen calls, reading the whole file
\* returns exactly as many bytes as the size its entry declares, and each byte
\* is the one last written at its offset.  Stated on chains ended by the mark
\* LAST and on files ftruncate was never called on.
C3_ReadBack ==
    (gh.op = "readall" /\ vol.eoc = LAST /\ ~vol.ents[vol.hs[gh.h].Entry].cut) =>
        LET e == vol.ents[vol.hs[gh.h].Entry]
        IN /\ ~vol.raised
           /\ Len(vol.out) = e.size
           /\ \A k \in 1..Len(vol.out) :
                  (k <= Len(e.w) /\ e.w[k] # UnknownCell) => vol.out[k] = e.w[k]

C3_Witness ==
    /\ gh.op = "readall" /\ vol.eoc = LAST /\ ~vol.raised
    /\ Len(vol.out) > ClusterBytes

(***************************************************************************)
(* The volume as it is on the disk: the chains the FAT links and the slots *)
(* the tables hold, whatever the objects in memory say.                    *)
(***************************************************************************)
\* the clusters the FAT links from the cluster c on, at most fuel of them
RECURSIVE Linked(_, _, _)
Linked(v, c, fuel) ==
    IF fuel = 0 \/ c \notin 2..RealLast(v) THEN <<>>
    ELSE <<c>> \o Linked(v, v.area[c], fuel - 1)

\* the cells of the chain that starts at the cluster start
TableCells(v, start) ==
    LET cl == Linked(v, start, v.size)
    IN [k \in 1..(Len(cl) * ClusterBytes) |->
           v.data[Cl2Offset(cl[((k - 1) \div ClusterBytes) + 1]) + ((k - 1) % ClusterBytes)]]

\* the start clusters the slots in use name, from the slot k on, the slots of
\* the tables below them included; the dot slots name no chain of their own
RECURSIVE SlotRoots(_, _, _, _)
SlotRoots(v, slots, k, fuel) ==
    LET Below(s) == IF s.isdir /\ fuel > 0
                    THEN SlotRoots(v, LiveSlots(TableCells(v, s.start), 1), 1, fuel - 1)
                    ELSE <<>>
        Own(s) == IF s.name \in {".", ".."} \/ s.start = 0 THEN <<>>
                  ELSE <<s.start>> \o Below(s)
    IN IF k > Len(slots) THEN <<>>
       ELSE Own(slots[k]) \o SlotRoots(v, slots, k + 1, fuel)

\* the start clusters of all the chains of the volume: the root table first
ChainRoots(v) ==
    <<RootCluster>> \o SlotRoots(v, LiveSlots(TableCells(v, RootCluster), 1), 1, 2)

Allocated(v) == {c \in 2..RealLast(v) : v.area[c] # 0}

\* the chains of roots that reach the cluster c
Owners(v, roots, c) ==
    {j \in 1..Len(roots) :
        \E k \in 1..Len(Linked(v, roots[j], v.size)) : Linked(v, roots[j], v.size)[k] = c}

\* no call failed and the caller closed every handle it got
Quiet == ~vol.raised /\ \A h \in 1..Len(vol.hs) : ~vol.hs[h].held

\* C1: after create, erase, mkdir and rmtree calls, with handles opened,
\* written and closed in between, the free count and the clusters allocated in
\* the FAT add up to the clusters of the volume, and every allocated cluster
\* is reached from exactly one chain.
C1_ClustersAccounted ==
    Quiet =>
        /\ vol.free_clusters + Cardinality(Allocated(vol)) = vol.size
        /\ \A c \in Allocated(vol) : Cardinality(Owners(vol, ChainRoots(vol), c)) = 1

C1_Witness ==
    /\ Quiet /\ gh.op = "close"
    /\ Cardinality(Allocated(vol)) > 2

\* the name names, in the table dk, a directory that holds a slot in use other
\* than the dot slots
FullDir(v, dk, name) ==
    /\ dk \in DOMAIN v.dirtable
    /\ v.dirtable[dk].reg
    /\ Find(v, dk, name) # 0
    /\ v.ents[Find(v, dk, name)].isdir
    /\ \E k \in 1..Len(LiveSlots(TableCells(v, v.ents[Find(v, dk, name)].start), 1)) :
           LiveSlots(TableCells(v, v.ents[Find(v, dk, name)].start), 1)[k].name
               \notin {".", ".."}

\* C2: erase(name) of a directory that holds an entry other than . and ..
\* fails, and leaves the slots of the table, its name index and the FAT (so
\* the chain of the directory) as they were.
C2_EraseKeepsFullDir ==
    [][(gh'.op = "erase" /\ FullDir(vol, gh'.dir, gh'.name)) =>
          /\ vol'.ret = 0
          /\ TableCells(vol', gh'.dir) = TableCells(vol, gh'.dir)
          /\ vol'.dirtable[gh'.dir].Names = vol.dirtable[gh'.dir].Names
          /\ vol'.area = vol.area]_vars

C2_Witness ==
    /\ gh.op = "erase" /\ gh.name \in DirNames /\ ~vol.raised
    /\ \E c \in 2..RealLast(vol) : c # RootCluster /\ vol.area[c] # 0

\* C6: every run of the free map covers only data clusters (2 and up, inside
\* the volume) that the FAT marks free, and the free count is not above the
\* clusters the runs cover.
C6_FreeMapSound ==
    ~vol.raised =>
        LET m == vol.free_clusters_map
        IN /\ \A j \in 1..Len(m) :
                  \A c \in m[j][1]..(m[j][1] + m[j][2] - 1) :
                      c \in 2..RealLast(vol) /\ vol.area[c] = 0
           /\ vol.free_clusters <=
                  Cardinality({c \in 0..(RealLast(vol) + 1) :
                                  \E j \in 1..Len(m) :
                                      m[j][1] <= c /\ c < m[j][1] + m[j][2]})

C6_Witness ==
    /\ ~vol.raised /\ gh.op = "close"
    /\ Len(vol.free_clusters_map) > 1

\* the caller holds the handle h of an entry that erase() was called on
Stale(v, h) == h \in 1..Len(v.hs) /\ v.hs[h].held /\ v.ents[v.hs[h].Entry].del

\* C8: a write or a close through a handle whose entry was erased changes
\* neither the table that held the entry, nor its name index, nor the FAT,
\* nor the free count and the free map.
C8_ErasedHandleInert ==
    [][(gh'.op \in {"write", "close"} /\ Stale(vol, gh'.h)) =>
          /\ TableCells(vol', vol.hs[gh'.h].Dir) = TableCells(vol, vol.hs[gh'.h].Dir)
          /\ vol'.dirtable[vol.hs[gh'.h].Dir].Names = vol.dirtable[vol.hs[gh'.h].Dir].Names
          /\ vol'.area = vol.area
          /\ vol'.free_clusters = vol.free_clusters
          /\ SameDict(vol'.free_clusters_map, vol.free_clusters_map)]_vars

C8_Witness ==
    /\ gh.op = "close" /\ ~vol.raised
    /\ Stale([vol EXCEPT !.hs[gh.h].held = TRUE], gh.h)

(***************************************************************************)
(* The calls on one directory table: create, mkdir, rename, erase, sort,   *)
(* opendir, with names that differ by case only and names given to files   *)
(* and to directories alike.                                               *)
(***************************************************************************)
MaxTableCalls == 4   \* calls in one run on the tables of a volume

TableNames == {"a", "A", "d"}
TablePaths == {"."} \cup TableNames

\* stream.seek(Entry._pos); stream.write(Entry._buf): the slot as its buffer
\* holds it, the attributes set since are not packed
WriteRaw(v, e, dk) ==
    IF v.raised THEN v
    ELSE DirWrite(v, dk, v.ents[e].pos, <<SlotCell(v.ents[e])>>)

\* Dirtable.rename(name, newname): ret is what it returns.  The new slot gets
\* the last 21 bytes of the buffer of the old one, while the start cluster set
\* by _alloc stays in its attributes; the handle _alloc made is dropped
Rename(v, dk, name, newname) ==
    LET e == Find(v, dk, name)
        ent == v.ents[e]
        Copied(w) ==
            IF w.raised THEN w
            ELSE [w EXCEPT !.ents[Len(v.ents) + 1].bstart = ent.bstart,
                           !.ents[Len(v.ents) + 1].bsize = ent.bsize,
                           !.ents[Len(v.ents) + 1].size = ent.bsize,
                           !.ents[Len(v.ents) + 1].isdir = ent.isdir,
                           !.hs[Len(v.hs) + 1].IsValid = FALSE]
        Swapped(w) ==
            IF w.raised THEN w
            ELSE IF w.dirtable[dk].Names[ShortName(ent)] = 0
            THEN [UpdateDirtable(w, dk, Len(v.ents) + 1) EXCEPT !.raised = TRUE]
            ELSE [UpdateDirtable(w, dk, Len(v.ents) + 1)
                     EXCEPT !.dirtable[dk].Names[ShortName(ent)] = 0,
                            !.ents[e].e5 = TRUE]
        Done(w) ==
            IF w.raised THEN w
            ELSE [w EXCEPT !.hs = SubSeq(@, 1, Len(v.hs)), !.ret = 1]
    IN IF v.raised THEN v
       ELSE IF e = 0 \/ Find(v, dk, newname) # 0 THEN [v EXCEPT !.ret = 0]
       ELSE Done(DirWrite(
                Swapped(WriteRaw(Copied(DirAlloc(v, dk, newname, 0, FALSE)),
                                 Len(v.ents) + 1, dk)),
                dk, ent.pos, <<SlotCell([ent EXCEPT !.e5 = TRUE])>>))

InitTable ==
    /\ vol = Mount(NumClusters, FatInit(NumClusters).area, FreshData(NumClusters))
    /\ gh = [op |-> "mount", calls |-> 0, limit |-> MaxTableCalls, h |-> 0, dir |-> 0,
             name |-> "", len |-> 0, free |-> 0]
    /\ disk = DiskInit
    /\ shadow = <<>>
    /\ dres = [op |-> "none", good |-> TRUE, calls |-> 0]

\* table.create(name), the name being free, a file's or a directory's
TableCreate ==
    \E path \in TablePaths, name \in TableNames :
        LET r == At(Begin(vol), path)
            Got(w) == IF w.raised THEN w ELSE [w EXCEPT !.hs[Len(w.hs)].held = TRUE]
        IN /\ Ready
           /\ Len(vol.hs) < MaxHandles
           /\ r.found # 0 /\ ~r.raised
           /\ vol' = End(Got(Create(r, r.found, name)))
           /\ gh' = Call("create", Len(vol'.hs), r.found, name, 0, 0)
           /\ UNCHANGED diskvars

\* table.mkdir(name), the name being free, a file's or a directory's
TableMkdir ==
    \E path \in TablePaths, name \in TableNames :
        LET r == At(Begin(vol), path)
        IN /\ Ready
           /\ r.found # 0 /\ ~r.raised
           /\ vol' = End(Mkdir(r, r.found, name))
           /\ gh' = Call("mkdir", 0, r.found, name, 0, 0)
           /\ UNCHANGED diskvars

\* table.rename(name, newname)
TableRename ==
    \E path \in TablePaths, name \in TableNames, newname \in TableNames :
        LET r == At(Begin(vol), path)
        IN /\ Ready
           /\ r.found # 0 /\ ~r.raised
           /\ Find(r, r.found, name) # 0
           /\ vol' = End(Rename(r, r.found, name, newname))
           /\ gh' = Call("rename", 0, r.found, newname, 0, 0)
           /\ UNCHANGED diskvars

\* table.erase(name)
TableErase ==
    \E path \in TablePaths, name \in TableNames :
        LET r == At(Begin(vol), path)
        IN /\ Ready
           /\ r.found # 0 /\ ~r.raised
           /\ Find(r, r.found, name) # 0
           /\ vol' = End(Erase(r, r.found, name))
           /\ gh' = Call("erase", 0, r.found, name, 0, 0)
           /\ UNCHANGED diskvars

NextTable == TableCreate \/ TableMkdir \/ TableRename \/ TableErase \/ VolClose

SpecTable == InitTable /\ [][NextTable]_vars

\* the tables in use: the root and the directories its live slots name
LiveTables(v) ==
    {RootCluster} \cup
    {c \in 2..RealLast(v) :
        /\ v.dirtable[c].reg
        /\ \E k \in 1..Len(LiveSlots(TableCells(v, RootCluster), 1)) :
               LET s == LiveSlots(TableCells(v, RootCluster), 1)[k]
               IN s.isdir /\ s.start = c}

\* C11: after any calls of create, mkdir, rename and erase, no two live
\* slots of a directory table, of files or of directories, hold names that
\* are equal once lower-cased.
C11_NamesUnique ==
    ~vol.raised =>
        \A dk \in LiveTables(vol) :
            LET s == LiveSlots(TableCells(vol, dk), 1)
            IN \A i \in 1..Len(s), j \in 1..Len(s) :
                   i # j => Lower(s[i].name) # Lower(s[j].name)

\* C12: after any calls of create, erase and rename, every erased slot of
\* a directory table lies in a run of its slots_map, and the runs of the
\* compacted map are pairwise disjoint.
C12_ErasedSlotsMapped ==
    ~vol.raised =>
        \A dk \in LiveTables(vol) :
            LET cells == TableCells(vol, dk)
                m == vol.dirtable[dk].slots_map
                c == CompactLoop(m)
            IN /\ \A p \in 0..(Len(cells) - 1) :
                      (cells[p + 1].t = "slot" /\ cells[p + 1].e5) =>
                          \E j \in 1..Len(m) : m[j][1] <= p /\ p < m[j][1] + m[j][2]
               /\ \A i \in 1..Len(c), j \in 1..Len(c) :
                      i # j => (c[i][1] + c[i][2] <= c[j][1] \/ c[j][1] + c[j][2] <= c[i][1])

(***************************************************************************)
(* Writes on the chain of a directory table alone, on a volume whose free  *)
(* clusters hold the bytes of files erased before.                         *)
(***************************************************************************)
MaxTipCalls == 3     \* writes in one run on the chain of the root table

\* a volume where the clusters of busy are one-cluster chains of other files
\* and every cluster but the root's holds old bytes
UsedImage(size, busy) ==
    LET fat == FatInit(size)
    IN [area |-> [p \in DOMAIN fat.area |->
                    IF p \in busy \/ (p - fat.bootfat2) \in busy THEN LAST
                    ELSE fat.area[p]],
        data |-> [p \in 0..(size * ClusterBytes - 1) |->
                    IF p < Cl2Offset(RootCluster) + ClusterBytes THEN ZeroCell
                    ELSE ByteCell(1)]]

InitTip ==
    /\ \E busy \in SUBSET {3, 4} :
         vol = Mount(NumClusters, UsedImage(NumClusters, busy).area,
                     UsedImage(NumClusters, busy).data)
    /\ gh = [op |-> "mount", calls |-> 0, limit |-> MaxTipCalls, h |-> 0, dir |-> 0,
             name |-> "", len |-> 0, free |-> 0]
    /\ disk = DiskInit
    /\ shadow = <<>>
    /\ dres = [op |-> "none", good |-> TRUE, calls |-> 0]

\* stream.seek(pos); stream.write(s) on the root table, of n slots at a
\* position of the table or at its end; free tells that the write extends
\* the chain
TableWrite ==
    \E pos \in 0..(2 * ClusterBytes), n \in 1..(ClusterBytes + 1) :
        /\ Ready
        /\ pos <= vol.dirtable[RootCluster].stream.size
        /\ vol' = End(DirWrite(Begin(vol), RootCluster, pos,
                               [k \in 1..n |-> SlotCell(NewEntry("a", pos + k - 1))]))
        /\ gh' = Call("tablewrite", 0, RootCluster, "", n,
                      IF pos + n > vol.dirtable[RootCluster].stream.size THEN 1 ELSE 0)
        /\ UNCHANGED diskvars

NextTip == TableWrite

SpecTip == InitTip /\ [][NextTip]_vars

\* C13: when a write on the chain of a directory table allocates clusters
\* and ends before the end of the chain, every cell from the end of the
\* write to the end of the chain is zero, whether the chain is one run or
\* several.
C13_TipZeroed ==
    (gh.op = "tablewrite" /\ gh.free = 1 /\ ~vol.raised) =>
        LET c == vol.dirtable[RootCluster].stream
            cells == ChainCells(vol, [c EXCEPT !.filesize = c.size])
        IN \A k \in (c.pos + 1)..c.size : cells[k] = ZeroCell

(***************************************************************************)
(* Files that grow on a volume with few free clusters.                     *)
(***************************************************************************)
MaxFullCalls == 4    \* calls in one run on the files of a nearly full volume

\* the clusters other files hold when the volume is mounted
BusySets == {{4, 5, 6, 7, 8}, {3, 5, 6, 7, 8}, {5, 6, 7, 8}, {4, 6, 7, 8}, {3, 4, 6, 8}}

\* the volume after a file was made, grown to one cluster, erased while its
\* handle was open, closed, and the tables were flushed
ErasedOpen(v) ==
    LET Let(w) == [w EXCEPT !.hs = [h \in 1..Len(@) |-> [@[h] EXCEPT !.held = FALSE]]]
    IN End(Let(Flush(Begin(End(HandleClose(Begin(End(Erase(Begin(End(HandleSeek(Begin(End(
           Create(At(Begin(v), "."), RootCluster, "a"))),
           Len(v.hs) + 1, ClusterBytes))), RootCluster, "a"))), Len(v.hs) + 1))))))

InitFull ==
    /\ \E busy \in BusySets, past \in BOOLEAN :
         LET img == UsedImage(NumClusters, busy)
         IN vol = IF past THEN ErasedOpen(Mount(NumClusters, img.area, img.data))
                  ELSE Mount(NumClusters, img.area, img.data)
    /\ gh = [op |-> "mount", calls |-> 0, limit |-> MaxFullCalls, h |-> 0, dir |-> 0,
             name |-> "", len |-> 0, free |-> 0]
    /\ disk = DiskInit
    /\ shadow = <<>>
    /\ dres = [op |-> "none", good |-> TRUE, calls |-> 0]

NextFull == VolCreateNew \/ VolSeek \/ VolWrite \/ VolFtruncate \/ VolClose

SpecFull == InitFull /\ [][NextFull]_vars

\* the clusters whose FAT slot is 0
ActualFree(v) == Cardinality({c \in 2..RealLast(v) : v.area[c] = 0})

\* the clusters the call g asks FAT.alloc for, from the state v it starts in:
\* Chain.seek past the size of the chain, Chain.write past it
Asked(v, g) ==
    LET f == v.hs[g.h].File
    IN IF g.op \in {"seek", "ftruncate"}
       THEN (IF g.len > f.size THEN Ceil(g.len, ClusterBytes) - (f.size \div ClusterBytes)
             ELSE 0)
       ELSE IF g.op = "write"
       THEN (IF f.pos + g.len > f.size THEN Ceil(f.pos + g.len - f.size, ClusterBytes)
             ELSE 0)
       ELSE 0

\* C14: a call that asks the allocator for more clusters than the FAT has
\* free ends by raising, and no FAT slot was changed.
C14_NoSpaceRaised ==
    [][(Asked(vol, gh') > ActualFree(vol)) => (vol'.raised /\ vol'.area = vol.area)]_vars

(***************************************************************************)
(* Directory objects.  The caller holds Dirtable objects (objs): each has   *)
(* the cluster of its table, its handle and its stream.  Handles of         *)
(* directories and the Chain objects of tables are told apart by the order  *)
(* in which they were made: uniq[c] is dirtable[c]['Handle'] (0 for None),  *)
(* hfile[h] the File of the directory handle h, nstream the number of       *)
(* Chain objects made for tables.  made[c] is a ghost: the directories made *)
(* on the cluster c so far; sorted is a ghost: a sort() went through.       *)
(***************************************************************************)
MaxRegCalls == 4     \* calls in one run on the directory objects of a volume
MaxObjs == 4         \* Dirtable objects the caller holds in one run

\* the key sorted(names, key=str.lower) orders the names by
NameRank(n) ==
    IF Lower(n) = "a" THEN 1 ELSE IF Lower(n) = "b" THEN 2
    ELSE IF Lower(n) = "d" THEN 3 ELSE 4

\* sorted() is stable: c goes after the slots whose key is not larger
RECURSIVE SortInsert(_, _)
SortInsert(seq, c) ==
    IF Len(seq) = 0 THEN <<c>>
    ELSE IF NameRank(seq[Len(seq)].name) <= NameRank(c.name) THEN Append(seq, c)
    ELSE Append(SortInsert(SubSeq(seq, 1, Len(seq) - 1), c), seq[Len(seq)])

RECURSIVE SortedSlots(_, _)
SortedSlots(slots, k) ==
    IF k = 0 THEN <<>> ELSE SortInsert(SortedSlots(slots, k - 1), slots[k])

\* d[name]: the slot iterated last under the name
LastNamed(slots, n) ==
    slots[CHOOSE k \in 1..Len(slots) :
              slots[k].name = n /\ \A j \in (k + 1)..Len(slots) : slots[j].name # n]

\* the slots Dirtable.sort() writes back, in order
SortOut(slots) ==
    LET named == SelectSeq(slots, LAMBDA c : c.name \notin {".", ".."})
        names == SortedSlots(named, Len(named))
    IN [k \in 1..Len(names) |-> LastNamed(slots, names[k].name)]

\* for name in names: self.stream.write(d[name]._buf)
RECURSIVE SortWrite(_, _, _, _, _)
SortWrite(v, dk, pos, out, k) ==
    IF v.raised \/ k > Len(out) THEN v
    ELSE SortWrite(DirWrite(v, dk, pos, <<out[k]>>), dk, pos + 1, out, k + 1)

\* Dirtable.sort() on an object of the table dk: ret is the first number it
\* returns
Sort(v, dk) ==
    LET first == IF dk = RootCluster THEN 0 ELSE 2
        out == SortOut(LiveSlots(ChainCells(v, v.dirtable[dk].stream), 1))
        last == first + Len(out)
        Blanked(w) ==
            IF w.raised THEN w
            ELSE DirWrite(w, dk, last, ZeroCells(w.dirtable[dk].stream.size - last))
        Rebuilt(w) ==
            IF w.raised THEN w
            ELSE [DirMapCompact(
                      MapSlotsFrom([w EXCEPT !.dirtable[dk] =
                                        [NoDir EXCEPT !.reg = TRUE,
                                                      !.stream = w.dirtable[dk].stream]],
                                   dk, ChainCells(w, w.dirtable[dk].stream), 0, -1, -1),
                      dk) EXCEPT !.ret = last]
    IN IF v.raised THEN v
       ELSE IF Len(v.dirtable[dk].Open) # 0 THEN [v EXCEPT !.ret = -1]
       ELSE Rebuilt(Blanked(SortWrite(v, dk, first, out, 1)))

\* the end of Dirtable.opendir(name): the object found takes the unique Handle
\* of its table and the File of that Handle, or a new Handle on its own stream
Opened(w, keep) ==
    LET new == [start |-> w.found, handle |-> Len(w.hfile) + 1, stream |-> w.nstream + 1,
                gen |-> w.made[w.found]]
        old == [start |-> w.found, handle |-> w.uniq[w.found],
                stream |-> w.hfile[w.uniq[w.found]], gen |-> w.made[w.found]]
    IN IF w.raised \/ w.found = 0 THEN w
       ELSE IF w.uniq[w.found] # 0
       THEN [w EXCEPT !.nstream = @ + 1, !.objs = IF keep THEN Append(@, old) ELSE @]
       ELSE [w EXCEPT !.nstream = @ + 1, !.hfile = Append(@, w.nstream + 1),
                      !.uniq[w.found] = Len(w.hfile) + 1,
                      !.objs = IF keep THEN Append(@, new) ELSE @]

\* the end of Dirtable.mkdir(name) of a new directory: the handle _alloc() made
\* is recorded as the unique Handle, and opendir() gives an object on it
Made(w) ==
    IF w.raised \/ w.found = 0 THEN w
    ELSE [w EXCEPT !.nstream = @ + 2, !.hfile = Append(@, w.nstream + 1),
                   !.uniq[w.found] = Len(w.hfile) + 1,
                   !.made[w.found] = @ + 1,
                   !.objs = Append(@, [start |-> w.found, handle |-> Len(w.hfile) + 1,
                                       stream |-> w.nstream + 1,
                                       gen |-> w.made[w.found] + 1])]

InitReg ==
    /\ \E filed \in BOOLEAN :
         LET m == Mount(NumClusters, FatInit(NumClusters).area, FreshData(NumClusters))
             used == End(HandleClose(Begin(End(Create(Begin(m), RootCluster, "a"))), 1))
         IN vol = (IF filed THEN used ELSE m) @@
                  [objs |-> <<[start |-> RootCluster, handle |-> 0, stream |-> 1,
                               gen |-> 0]>>,
                   uniq |-> [c \in DOMAIN m.dirtable |-> 0],
                   hfile |-> <<>>, nstream |-> 1,
                   made |-> [c \in DOMAIN m.dirtable |-> 0],
                   sorted |-> FALSE]
    /\ gh = [op |-> "mount", calls |-> 0, limit |-> MaxRegCalls, h |-> 0, dir |-> 0,
             name |-> "", len |-> 0, free |-> 0]
    /\ disk = DiskInit
    /\ shadow = <<>>
    /\ dres = [op |-> "none", good |-> TRUE, calls |-> 0]

\* the directory of the object o is the one made last on its cluster, and the
\* root still names it
Current(v, o) ==
    \/ v.objs[o].start = RootCluster
    \/ /\ v.objs[o].gen = v.made[v.objs[o].start]
       /\ \E n \in DirNames : DirStart(v, RootCluster, n) = v.objs[o].start

\* root.mkdir(name)
RegMkdir ==
    \E name \in DirNames :
        /\ Ready /\ ~vol.sorted
        /\ Len(vol.objs) < MaxObjs
        /\ vol' = End(IF Find(vol, RootCluster, name) # 0
                      THEN Opened(Mkdir(Begin(vol), RootCluster, name), TRUE)
                      ELSE Made(Mkdir(Begin(vol), RootCluster, name)))
        /\ gh' = Call("mkdir", 0, RootCluster, name, 0, 0)
        /\ UNCHANGED diskvars

\* root.opendir(name) of a directory
RegOpendir ==
    \E name \in DirNames :
        /\ Ready
        /\ Len(vol.objs) < MaxObjs
        /\ DirStart(vol, RootCluster, name) # 0
        /\ vol' = End(Opened(Opendir(Begin(vol), RootCluster, name), TRUE))
        /\ gh' = Call("opendir", 0, RootCluster, name, 0, 0)
        /\ UNCHANGED diskvars

\* table.sort() on an object the caller holds
RegSort ==
    \E o \in 1..MaxObjs :
        LET Noted(w) ==
                IF w.raised \/ w.ret < 0 THEN w
                ELSE [w EXCEPT !.uniq[vol.objs[o].start] = 0, !.sorted = TRUE]
        IN /\ Ready /\ ~vol.sorted
           /\ o <= Len(vol.objs)
           /\ Current(vol, o)
           /\ vol' = End(Noted(Sort(Begin(vol), vol.objs[o].start)))
           /\ gh' = Call("sort", 0, vol.objs[o].start, "", o, 0)
           /\ UNCHANGED diskvars

\* table.erase(name) on an object the caller holds
RegErase ==
    \E o \in 1..MaxObjs, name \in FileNames \cup DirNames :
        LET dk == vol.objs[o].start
            Looked(w) ==
                IF Find(vol, dk, name) = 0 THEN w
                ELSE IF ~vol.ents[Find(vol, dk, name)].isdir THEN w
                ELSE Opened([w EXCEPT !.found = vol.ents[Find(vol, dk, name)].start], FALSE)
        IN /\ Ready /\ ~vol.sorted
           /\ o <= Len(vol.objs)
           /\ Current(vol, o)
           /\ vol' = End(Looked(Erase(Begin(vol), dk, name)))
           /\ gh' = Call("erase", 0, dk, name, o, 0)
           /\ UNCHANGED diskvars

\* table.create(name) of a new name on an object the caller holds
RegCreate ==
    \E o \in 1..MaxObjs, name \in FileNames :
        LET dk == vol.objs[o].start
            Got(w) == IF w.raised THEN w ELSE [w EXCEPT !.hs[Len(w.hs)].held = TRUE]
        IN /\ Ready /\ ~vol.sorted
           /\ o <= Len(vol.objs)
           /\ Current(vol, o)
           /\ Len(vol.hs) < MaxHandles
           /\ Find(vol, dk, name) = 0
           /\ vol' = End(Got(Create(Begin(vol), dk, name)))
           /\ gh' = Call("create", Len(vol'.hs), dk, name, o, 0)
           /\ UNCHANGED diskvars

\* table.open(name) on an object the caller holds, for a file the caller has
\* no handle of
RegOpen ==
    \E o \in 1..MaxObjs, name \in FileNames :
        LET dk == vol.objs[o].start
            Got(w) == IF w.raised THEN w ELSE [w EXCEPT !.hs[w.ret].held = TRUE]
        IN /\ Ready /\ ~vol.sorted
           /\ o <= Len(vol.objs)
           /\ Current(vol, o)
           /\ Len(vol.hs) < MaxHandles
           /\ IF Find(vol, dk, name) = 0 THEN FALSE
              ELSE /\ ~vol.ents[Find(vol, dk, name)].isdir
                   /\ \A h \in 1..Len(vol.hs) :
                          vol.hs[h].held => vol.hs[h].Entry # Find(vol, dk, name)
           /\ vol' = End(Got(DirOpen(Begin(vol), dk, name)))
           /\ gh' = Call("open", vol'.ret, dk, name, o, 0)
           /\ UNCHANGED diskvars

\* handle.write(s), handle.close()
RegWrite == ~vol.sorted /\ VolWrite
RegClose == ~vol.sorted /\ VolClose

NextReg ==
    RegMkdir \/ RegOpendir \/ RegSort \/ RegErase \/ RegCreate \/ RegOpen \/ RegWrite
        \/ RegClose

SpecReg == InitReg /\ [][NextReg]_vars

\* C15: the objects the caller holds on one directory table share one handle
\* and one stream.
C15_OneHandlePerTable ==
    ~vol.raised =>
        \A o1, o2 \in 1..Len(vol.objs) :
            (/\ vol.objs[o1].start = vol.objs[o2].start
             /\ Current(vol, o1) /\ Current(vol, o2))
            => /\ vol.objs[o1].handle = vol.objs[o2].handle
               /\ vol.objs[o1].stream = vol.objs[o2].stream

\* C16: sort() returns (-1, -1) only when the caller has a handle of a file of
\* the table that was not closed.
C16_SortRefusedOnlyWhileOpen ==
    (gh.op = "sort" /\ ~vol.raised /\ vol.ret = -1)
        => \E h \in 1..Len(vol.hs) : vol.hs[h].held /\ vol.hs[h].Dir = gh.dir

(***************************************************************************)
(* VHDX images (vhdxutils.py, vhdxlog.py).  In the specifications of this  *)
(* part vol is an image file: its two headers h1 and h2 (valid tells       *)
(* whether signature and CRC are right), the pages of 4096 bytes of its    *)
(* log region, and the pages of the rest of the file (file) that the log   *)
(* describes.  A page of the file holds the bytes of a sector: body are    *)
(* its bytes 8..4091, ends its first 8 and last 4 bytes.  phase tells      *)
(* whether an Image object exists (open), none was built yet (closed) or   *)
(* the constructor raised (failed).  Ghosts: active (the valid header with *)
(* the highest sequence number held a log GUID when the image was opened), *)
(* replayed (replay_log() returned).                                       *)
(***************************************************************************)
MaxLogCalls == 3     \* calls in one run on an image
LogPages == 6        \* pages of the log region
FilePages == 3       \* pages of the file the log entries describe

NoPage == [t |-> "none"]
OldCell == [body |-> "old", ends |-> "old"]
BlankCell == [body |-> "zero", ends |-> "zero"]

\* stream.seek(off); stream.write(cells): the file grows with zeros
WriteAt(file, off, cells) ==
    [k \in 1..Max(Len(file), off + Len(cells)) |->
        IF off < k /\ k <= off + Len(cells) THEN cells[k - off]
        ELSE IF k <= Len(file) THEN file[k] ELSE BlankCell]

\* the pages f.read() gives from the page i of the log for n pages: what
\* follows the log region is no log page
LogRead(log, i, n) ==
    [k \in 1..n |-> IF i + k <= Len(log) THEN log[i + k] ELSE NoPage]

\* LogEntryHeader.isvalid(): signature and alignment
HeaderOk(p) == p.t = "loge"

\* the loop of LogStream.find_sequence(): i is the page scanned, sequence the
\* candidate active sequence (each entry with its pages in buf); an entry of
\* the session whose CRC is wrong is scanned again and again (hang)
RECURSIVE FindSequence(_, _, _, _, _, _)
FindSequence(log, guid, i, tail, seq, sequence) ==
    LET h == log[i + 1]
        e == [h EXCEPT !.t = "entry"] @@ [pos |-> i, buf |-> LogRead(log, i, h.len)]
        last == sequence[Len(sequence)]
    IN IF i >= Len(log) THEN [sequence |-> sequence, hang |-> FALSE]
       ELSE IF ~HeaderOk(h) THEN FindSequence(log, guid, i + 1, tail, seq, sequence)
       ELSE IF h.guid # guid THEN FindSequence(log, guid, i + 1, tail, seq, sequence)
       ELSE IF ~h.crc THEN [sequence |-> sequence, hang |-> TRUE]
       ELSE IF h.tail = i /\ Len(sequence) > 0 /\ sequence[1].seq = h.seq
       THEN [sequence |-> sequence, hang |-> FALSE]
       ELSE IF h.tail = i /\ (tail < 0 \/ h.seq > seq)
       THEN FindSequence(log, guid, i + 1, i, h.seq, <<e>>)
       ELSE IF Len(sequence) > 0 /\ last.tail = h.tail /\ last.seq = h.seq - 1
       THEN FindSequence(log, guid, i + 1, tail, h.seq, Append(sequence, e))
       ELSE FindSequence(log, guid, i + 1, tail, seq, sequence)

\* DataDescriptor.raw_sector(): the sector, with the leading and trailing
\* bytes the descriptor keeps
RawSector(d, sector) == [body |-> sector.body, ends |-> d.ends]

\* the sector replay_log() reads for the descriptor j (from 0) of the entry e:
\* the page at ds_base + j*LOG_RECORD of the buffer of the entry; past the
\* buffer DataSector() is given no bytes and makes a blank sector
SectorOf(e, j) ==
    IF 1 + j + 1 <= Len(e.buf) THEN e.buf[1 + j + 1] ELSE NoPage

\* the descriptors of an entry are parsed and checked: TRUE when all are good
RECURSIVE ParseOk(_, _)
ParseOk(e, j) ==
    IF j >= Len(e.descs) THEN TRUE
    ELSE IF e.descs[j + 1].t = "desc" /\ SectorOf(e, j).t # "data" THEN FALSE
    ELSE IF e.descs[j + 1].seq # e.seq THEN FALSE
    ELSE IF e.descs[j + 1].t = "desc" /\ SectorOf(e, j).seq # e.descs[j + 1].seq THEN FALSE
    ELSE ParseOk(e, j + 1)

\* for desc in e.descriptors: the logged sectors are written
RECURSIVE RewriteFrom(_, _, _)
RewriteFrom(file, e, j) ==
    IF j >= Len(e.descs) THEN file
    ELSE RewriteFrom(WriteAt(file, e.descs[j + 1].off,
                             IF e.descs[j + 1].t = "zero"
                             THEN [k \in 1..e.descs[j + 1].len |-> BlankCell]
                             ELSE <<RawSector(e.descs[j + 1], SectorOf(e, j))>>),
                     e, j + 1)

\* the for loop of replay_log() over the entries of the sequence, from the
\* entry k: it ends at the first entry a descriptor of which is not good
RECURSIVE ReplayFrom(_, _, _)
ReplayFrom(file, sequence, k) ==
    IF k > Len(sequence) THEN [file |-> file, raised |-> FALSE]
    ELSE IF ~ParseOk(sequence[k], 0) THEN [file |-> file, raised |-> TRUE]
    ELSE ReplayFrom(RewriteFrom(file, sequence[k], 0), sequence, k + 1)

\* LogStream.replay_log() on the file of the image v for the log GUID guid:
\* the file it leaves, whether it raised, whether it never returns
ReplayLog(v, guid) ==
    LET found == FindSequence(v.log, guid, 0, -1, -1, <<>>)
        size2 == found.sequence[Len(found.sequence)].flushed
        grown == IF Len(v.file) < size2 THEN WriteAt(v.file, size2 - 1, <<BlankCell>>)
                 ELSE v.file
    IN IF found.hang THEN [file |-> v.file, raised |-> FALSE, hang |-> TRUE]
       ELSE IF Len(found.sequence) = 0 THEN [file |-> v.file, raised |-> TRUE, hang |-> FALSE]
       ELSE ReplayFrom(grown, found.sequence, 1) @@ [hang |-> FALSE]

\* Image.__init__: the header with the highest sequence number is taken
Selected(v) == IF Max(v.h1.seq, v.h2.seq) = v.h1.seq THEN v.h1 ELSE v.h2

\* Image._update_headers(9): the log GUID is cleared, and the header written
\* twice with the next two sequence numbers
UpdateHeaders(v, h) ==
    [v EXCEPT !.h1 = [valid |-> TRUE, seq |-> h.seq + 1, guid |-> "null"],
              !.h2 = [valid |-> TRUE, seq |-> h.seq + 2, guid |-> "null"]]

\* Image(name, mode): the regions, the metadata and the BAT that are parsed
\* after the log are those of a well-formed image
ImageInit(v, mode) ==
    LET h == Selected(v)
        r == ReplayLog(v, h.guid)
    IN IF ~v.h1.valid /\ ~v.h2.valid THEN [v EXCEPT !.phase = "failed"]
       ELSE IF h.guid = "null" THEN [v EXCEPT !.phase = "open"]
       ELSE IF mode = "rb" THEN [v EXCEPT !.phase = "failed"]
       ELSE IF r.hang THEN [v EXCEPT !.phase = "hung"]
       ELSE IF r.raised THEN [v EXCEPT !.phase = "failed", !.file = r.file]
       ELSE [UpdateHeaders(v, h) EXCEPT !.phase = "open", !.file = r.file,
                                        !.replayed = TRUE]

\* the log entries a writer leaves: the k-th Data Descriptor of an entry goes
\* with the k-th Data Sector after the descriptors
Zero(off, seq) == [t |-> "zero", off |-> off, len |-> 1, seq |-> seq]
Data(off, p, seq) == [t |-> "desc", off |-> off, ends |-> p, seq |-> seq]

EntryPages(descs, seq, tail, guid, crc) ==
    LET datas == SelectSeq(descs, LAMBDA d : d.t = "desc")
    IN <<[t |-> "loge", crc |-> crc, len |-> 1 + Len(datas), tail |-> tail, seq |-> seq,
          guid |-> guid, flushed |-> FilePages, descs |-> descs]>>
       \o [k \in 1..Len(datas) |-> [t |-> "data", seq |-> seq, body |-> datas[k].ends]]

\* the descriptors of one entry of sequence number seq: p tells the payloads
\* of the entry apart
DescLists(seq, p) ==
    {<<Data(0, p, seq)>>, <<Zero(1, seq)>>,
     <<Data(0, p, seq), Zero(1, seq)>>, <<Zero(1, seq), Data(0, p, seq)>>,
     <<Data(0, p, seq), Data(2, p + 1, seq)>>,
     <<Zero(0, seq), Data(0, p, seq), Data(1, p + 1, seq)>>,
     <<Data(1, p, seq), Zero(1, seq)>>}

\* a log of one entry, or of two: the second continues the sequence, or
\* starts one, or is left from another session, or has a wrong CRC
Logs ==
    LET pad(pages) == pages \o [k \in 1..(LogPages - Len(pages)) |-> NoPage]
        first == {EntryPages(d, 5, 0, "g1", TRUE) : d \in DescLists(5, 10)}
        second(at) ==
            {EntryPages(d, 6, 0, "g1", TRUE) : d \in DescLists(6, 20)}
            \cup {EntryPages(d, 6, at, "g1", TRUE) : d \in DescLists(6, 20)}
            \cup {EntryPages(d, 4, at, "g1", TRUE) : d \in DescLists(4, 20)}
            \cup {EntryPages(d, 6, 0, "g0", TRUE) : d \in DescLists(6, 20)}
            \cup {EntryPages(<<Zero(2, 6)>>, 6, 0, "g1", FALSE)}
    IN {pad(a) : a \in first}
       \cup UNION {{pad(a \o b) : b \in second(Len(a))} : a \in first}

Headers ==
    [valid : BOOLEAN, seq : {1, 2}, guid : {"null", "g1"}]

InitLog ==
    /\ \E log \in Logs, h1 \in Headers, h2 \in Headers :
         /\ vol = [h1 |-> h1, h2 |-> h2, log |-> log,
                   file |-> [k \in 1..FilePages |-> OldCell],
                   phase |-> "closed", active |-> FALSE, replayed |-> FALSE]
    /\ gh = [op |-> "none", calls |-> 0, limit |-> MaxLogCalls, mode |-> ""]
    /\ disk = DiskInit
    /\ shadow = <<>>
    /\ dres = [op |-> "none", good |-> TRUE, calls |-> 0]

\* the header the format makes current: the valid one with the highest
\* sequence number
CurrentHeader(v) ==
    IF v.h1.valid /\ (~v.h2.valid \/ v.h1.seq >= v.h2.seq) THEN v.h1 ELSE v.h2

\* Image(name, mode)
VhdxOpen ==
    \E mode \in {"rb", "r+b"} :
        /\ gh.calls < gh.limit
        /\ vol.phase = "closed"
        /\ vol' = [ImageInit(vol, mode) EXCEPT
                       !.active = (vol.h1.valid \/ vol.h2.valid) /\ CurrentHeader(vol).guid # "null"]
        /\ gh' = [op |-> "open", calls |-> gh.calls + 1, limit |-> gh.limit, mode |-> mode]
        /\ UNCHANGED diskvars

\* Image.close(), or the end of the process after a failed open
VhdxClose ==
    /\ gh.calls < gh.limit
    /\ vol.phase \in {"open", "failed"}
    /\ vol' = [vol EXCEPT !.phase = "closed", !.replayed = FALSE, !.active = FALSE]
    /\ gh' = [op |-> "close", calls |-> gh.calls + 1, limit |-> gh.limit, mode |-> ""]
    /\ UNCHANGED diskvars

NextLog == VhdxOpen \/ VhdxClose

SpecLog == InitLog /\ [][NextLog]_vars

\* the file a log specifies: the descriptors of the entries in order, each
\* Data Descriptor with its own sector's bytes (told by ends)
RECURSIVE Specified(_, _, _)
Specified(file, descs, j) ==
    IF j > Len(descs) THEN file
    ELSE Specified(WriteAt(file, descs[j].off,
                           IF descs[j].t = "zero"
                           THEN [k \in 1..descs[j].len |-> BlankCell]
                           ELSE <<[body |-> descs[j].ends, ends |-> descs[j].ends]>>),
                   descs, j + 1)

RECURSIVE AllDescs(_, _)
AllDescs(sequence, k) ==
    IF k > Len(sequence) THEN <<>> ELSE sequence[k].descs \o AllDescs(sequence, k + 1)

\* C17: an image whose current header holds the GUID of a log without
\* damaged entries opens for writing with every sector the active sequence
\* describes equal to what the log specifies.
C17_ReplayMatchesLog ==
    [][(/\ gh'.op = "open" /\ gh'.mode = "r+b"
        /\ Selected(vol).valid /\ Selected(vol) = CurrentHeader(vol)
        /\ Selected(vol).guid = "g1"
        /\ \A k \in 1..LogPages : vol.log[k].t = "loge" => vol.log[k].crc)
       => (/\ vol'.phase = "open"
           /\ vol'.file = Specified(vol.file,
                              AllDescs(FindSequence(vol.log, "g1", 0, -1, -1, <<>>).sequence,
                                       1), 1))]_vars

\* C18: an image whose log was active when it was opened serves no call
\* before the log was replayed, and its log GUID is cleared only by an open
\* that replayed the log.
C18_ReplayBeforeService ==
    /\ (vol.phase = "open" /\ vol.active) => vol.replayed
    /\ (vol.phase = "failed" /\ vol.active) => CurrentHeader(vol).guid # "null"

\* ---------------------------------------------------------------------------
\* VHD images (vhdutils.py): a chain of image files, the last one opened by
\* the caller, each Differencing image over its parent.  An image file is its
\* type, its Block Address Table and the bytes of its container; sizes are
\* scaled (a sector of VhdSectorBytes bytes, a block of VhdBlockSectors
\* sectors).
\* ---------------------------------------------------------------------------
VhdSectorBytes == 2     \* bytes in a sector (512 in the code)
VhdBlockSectors == 2    \* sectors in a block (header.dwBlockSize // 512)
VhdBlocks == 2          \* blocks of the virtual disk (header.dwMaxTableEntries)
MetaSectors == 1        \* sectors before the first block (footer copy, header, BAT)

VIRTUAL == 0            \* the BAT entry of a block the file does not hold

VhdBlockBytes == VhdBlockSectors * VhdSectorBytes
VhdSize == VhdBlocks * VhdBlockBytes

\* Image.__init__: self.bitmap_size, in bytes
bitmap_size == Max(VhdSectorBytes, VhdBlockSectors \div 8)

\* BlockBitmap.isset: bmp is the bitmap's bytes, from index 0
isset(bmp, sector) == (bmp[sector \div 8] \div (2 ^ (7 - (sector % 8)))) % 2 # 0

\* stream.seek(at); stream.read(n)
ContainerRead(stream, at, n) == [j \in 1..n |-> stream[at + j - 1]]

\* read0: a Fixed image
read0(img, pos, size) == ContainerRead(img.stream, pos, size)

\* read: the loop of a Dynamic image, a run inside one block at a time
RECURSIVE readLoop(_, _, _, _)
readLoop(img, pos, size, buf) ==
    IF size = 0 THEN buf
    ELSE LET block == img.bat[pos \div VhdBlockBytes]
             offset == pos % VhdBlockBytes
             leftbytes == VhdBlockBytes - offset
             got == IF leftbytes <= size THEN leftbytes ELSE size
         IN readLoop(img, pos + got, size - got,
                     buf \o IF block = VIRTUAL
                            THEN [j \in 1..got |-> 0]
                            ELSE ContainerRead(img.stream,
                                            block * VhdSectorBytes + bitmap_size + offset,
                                            got))

read(img, pos, size) == readLoop(img, pos, size, <<>>)

RECURSIVE ImageRead(_, _, _, _)

\* read1: the loop of a Differencing image, a run inside one sector at a
\* time; bmp is the bitmap held, bmp.i the block it belongs to (VIRTUAL: none
\* yet).  The parent is sought to the run's position and read.
RECURSIVE read1Loop(_, _, _, _, _, _)
read1Loop(imgs, k, pos, size, bmp, buf) ==
    IF size = 0 THEN buf
    ELSE LET batind == pos \div VhdBlockBytes
             sector == (pos - batind * VhdBlockBytes) \div VhdSectorBytes
             offset == pos % VhdSectorBytes
             leftbytes == VhdSectorBytes - offset
             block == imgs[k].bat[batind]
             got == IF leftbytes <= size THEN leftbytes ELSE size
             held == IF (bmp.i = VIRTUAL \/ bmp.i # block) /\ block # VIRTUAL
                     THEN [i |-> block,
                           bmp |-> [b \in 0..(bitmap_size - 1) |->
                                       imgs[k].stream[block * VhdSectorBytes + b]]]
                     ELSE bmp
         IN read1Loop(imgs, k, pos + got, size - got, held,
                      buf \o IF block = VIRTUAL
                             THEN ImageRead(imgs, k - 1, pos, got)
                             ELSE IF ~isset(held.bmp, sector)
                                  THEN ImageRead(imgs, k - 1, pos, got)
                                  ELSE ContainerRead(imgs[k].stream,
                                                  block * VhdSectorBytes + bitmap_size
                                                      + sector * VhdSectorBytes + offset,
                                                  got))

\* a read of a Differencing image that takes every sector of a block the
\* image holds from the image, whatever its bitmap says
read1Held(imgs, k, pos, size) ==
    [j \in 1..size |->
        IF imgs[k].bat[(pos + j - 1) \div VhdBlockBytes] = VIRTUAL
        THEN ImageRead(imgs, k - 1, pos + j - 1, 1)[1]
        ELSE imgs[k].stream[imgs[k].bat[(pos + j - 1) \div VhdBlockBytes] * VhdSectorBytes
                            + bitmap_size + ((pos + j - 1) % VhdBlockBytes)]]

read1(imgs, k, pos, size) ==
    read1Loop(imgs, k, pos, size, [i |-> VIRTUAL, bmp |-> <<>>], <<>>)

\* image k's read method, as Image.__init__ bound it to the image's type;
\* size is the count the method's first lines settled
ImageRead(imgs, k, pos, size) ==
    IF imgs[k].type = "fixed" THEN read0(imgs[k], pos, size)
    ELSE IF imgs[k].type = "dynamic" THEN read(imgs[k], pos, size)
    ELSE read1(imgs, k, pos, size)

\* the first lines of read0, read and read1
ReadSize(pos, size) == IF size = -1 \/ pos + size > VhdSize THEN VhdSize - pos ELSE size

\* the container of an image file at level k of a chain: order lists the
\* blocks the file holds in the order they lie in it, bits[b] the sectors of
\* block b whose bitmap bit is set.  Every data byte is nonzero and told by
\* its place.
DataByte(k, at) == 1 + ((64 * k + at) % 255)

RECURSIVE BmpByte(_, _, _)
BmpByte(set, first, i) ==
    IF i > 7 THEN 0
    ELSE (IF (first + i) \in set THEN 2 ^ (7 - i) ELSE 0) + BmpByte(set, first, i + 1)

BlockSpan == bitmap_size + VhdBlockBytes
BlockAt(j) == MetaSectors + (j - 1) * (BlockSpan \div VhdSectorBytes)

Container(k, order, bits) ==
    [at \in 0..((MetaSectors + 1) * VhdSectorBytes + Len(order) * BlockSpan - 1) |->
        LET rel == at - MetaSectors * VhdSectorBytes
            j == (rel \div BlockSpan) + 1
        IN IF rel < 0 \/ j > Len(order) THEN 255
           ELSE IF rel % BlockSpan < bitmap_size
                THEN BmpByte(bits[order[j]], 8 * (rel % BlockSpan), 0)
                ELSE DataByte(k, at)]

BlockSet == 0..(VhdBlocks - 1)
BlockSectorSet == 0..(VhdBlockSectors - 1)

\* the blocks of a set in rising or falling order
RECURSIVE Ordered(_, _)
Ordered(set, up) ==
    IF set = {} THEN <<>>
    ELSE LET b == CHOOSE x \in set : \A y \in set : IF up THEN x <= y ELSE x >= y
         IN <<b>> \o Ordered(set \ {b}, up)

Place(order, b) == CHOOSE j \in 1..Len(order) : order[j] = b

SparseImage(type, k, held, up, bits) ==
    [type |-> type,
     bat |-> [b \in BlockSet |-> IF b \in held THEN BlockAt(Place(Ordered(held, up), b))
                               ELSE VIRTUAL],
     stream |-> Container(k, Ordered(held, up), bits)]

FixedImage(k) ==
    [type |-> "fixed", bat |-> [b \in BlockSet |-> VIRTUAL],
     stream |-> [at \in 0..(VhdSize + VhdSectorBytes - 1) |->
                    IF at < VhdSize THEN DataByte(k, at) ELSE 255]]

\* the image files of a level: a base is Fixed or Dynamic (every bitmap bit
\* set, as write() makes a block), a child is Differencing
BaseImages ==
    {FixedImage(1)} \cup
    {SparseImage("dynamic", 1, held, up, [b \in BlockSet |-> BlockSectorSet]) :
        held \in SUBSET BlockSet, up \in BOOLEAN}

\* bits of the blocks with an even index and of those with an odd one
DiffImages(k) ==
    {SparseImage("diff", k, held, up, [b \in BlockSet |-> IF b % 2 = 0 THEN even ELSE odd]) :
        held \in SUBSET BlockSet, up \in BOOLEAN,
        even \in SUBSET BlockSectorSet, odd \in SUBSET BlockSectorSet}

\* a child of a child: the same sectors set in every block it holds
EvenDiffImages(k) ==
    {SparseImage("diff", k, held, TRUE, [b \in BlockSet |-> set]) :
        held \in SUBSET BlockSet, set \in SUBSET BlockSectorSet}

\* Image(name, mode): the object after __init__, which ends with seek(0)
VhdImage(imgs) == [imgs |-> imgs, pos |-> 0, raised |-> FALSE]

InitVhd ==
    /\ disk = DiskInit /\ shadow = <<>>
    /\ dres = [op |-> "none", good |-> TRUE, calls |-> 0]
    /\ \/ \E base \in BaseImages : base.type = "dynamic" /\ vol = VhdImage(<<base>>)
       \/ \E base \in BaseImages, child \in DiffImages(2) : vol = VhdImage(<<base, child>>)
       \/ \E mid \in EvenDiffImages(2), child \in EvenDiffImages(3) :
              vol = VhdImage(<<FixedImage(1), mid, child>>)
    /\ gh = [op |-> "open", pos |-> 0, size |-> 0, buf |-> <<>>]

\* Image.seek(offset): the position is set before the test that raises
seek(v, offset) == [v EXCEPT !.pos = offset, !.raised = (offset >= VhdSize)]

VhdSeek ==
    \E offset \in 0..VhdSize :
        /\ vol' = seek(vol, offset)
        /\ gh' = [op |-> "seek", pos |-> offset, size |-> 0, buf |-> <<>>]
        /\ UNCHANGED diskvars

\* the counts a caller asks for: all that is left, a byte, a sector and a
\* block, each also with one byte less and one more
ReadSizes ==
    {-1, 1, VhdSectorBytes - 1, VhdSectorBytes, VhdSectorBytes + 1,
     VhdBlockBytes - 1, VhdBlockBytes, VhdBlockBytes + 1}

\* Image.read(size) of the image the caller opened
VhdRead ==
    \E size \in ReadSizes :
        /\ size # 0
        /\ vol' = [vol EXCEPT !.pos = vol.pos + ReadSize(vol.pos, size), !.raised = FALSE]
        /\ gh' = [op |-> "read", pos |-> vol.pos, size |-> size,
                  buf |-> ImageRead(vol.imgs, Len(vol.imgs), vol.pos,
                                    ReadSize(vol.pos, size))]
        /\ UNCHANGED diskvars

NextVhd == VhdSeek \/ VhdRead

SpecVhd == InitVhd /\ [][NextVhd]_vars

\* what the format says a byte of the virtual disk of image k is
RECURSIVE VirtualByte(_, _, _)
VirtualByte(imgs, k, p) ==
    LET img == imgs[k]
        block == img.bat[p \div VhdBlockBytes]
        inblock == p % VhdBlockBytes
    IN IF img.type = "fixed" THEN img.stream[p]
       ELSE IF img.type = "dynamic"
            THEN IF block = VIRTUAL THEN 0
                 ELSE img.stream[block * VhdSectorBytes + bitmap_size + inblock]
            ELSE IF block = VIRTUAL THEN VirtualByte(imgs, k - 1, p)
                 ELSE IF (img.stream[block * VhdSectorBytes
                                     + (inblock \div VhdSectorBytes) \div 8]
                             \div (2 ^ (7 - ((inblock \div VhdSectorBytes) % 8)))) % 2 = 0
                      THEN VirtualByte(imgs, k - 1, p)
                      ELSE img.stream[block * VhdSectorBytes + bitmap_size + inblock]

\* C19: a read of a Dynamic or Differencing image returns the bytes asked
\* for, up to the end of the disk, and every one of them is: zero where a
\* Dynamic image does not hold the block; the parent's byte where a
\* Differencing image does not hold the block or the sector's bitmap bit is
\* clear; the byte the image itself stores otherwise.
C19_ReadBySectorState ==
    gh.op = "read" =>
        /\ Len(gh.buf) = Min(IF gh.size = -1 THEN VhdSize ELSE gh.size, VhdSize - gh.pos)
        /\ \A j \in 1..Len(gh.buf) :
               gh.buf[j] = VirtualByte(vol.imgs, Len(vol.imgs), gh.pos + j - 1)

\* a read of a Differencing image that crossed, inside a block the image
\* holds, from a sector whose bit is clear into one whose bit is set
C19_Witness ==
    /\ gh.op = "read" /\ Len(vol.imgs) > 1 /\ Len(gh.buf) > VhdSectorBytes
    /\ \E p \in gh.pos..(gh.pos + Len(gh.buf) - 1 - VhdSectorBytes) :
           LET img == vol.imgs[Len(vol.imgs)]
               block == img.bat[p \div VhdBlockBytes]
               sector == (p % VhdBlockBytes) \div VhdSectorBytes
               bmp == [b \in 0..(bitmap_size - 1) |-> img.stream[block * VhdSectorBytes + b]]
           IN /\ block # VIRTUAL /\ sector + 1 < VhdBlockSectors
              /\ ~isset(bmp, sector) /\ isset(bmp, sector + 1)
              /\ gh.buf[p - gh.pos + 1] # gh.buf[p - gh.pos + 1 + VhdSectorBytes]

\* ---------------------------------------------------------------------------
\* VMDK sparse extents (vmdkutils.py): one extent without a parent.  The
\* container is a sequence of bytes (byte at of the file is stream[at + 1]);
\* a grain table entry takes one byte of it instead of four.
\* ---------------------------------------------------------------------------
GrainSectors == 5       \* sectors in a grain (header.u64GrainSize)
Grains == 2             \* grains of the extent (u64Capacity // u64GrainSize)
MaxVmdkCalls == 4       \* calls made on the extent

ZEROED == 1             \* the grain table entry of a grain written with zeros only

GrainBytes == GrainSectors * VhdSectorBytes
ExtentSize == Grains * GrainBytes

\* calc_ext_meta_size: sectors of a Grain Tables array and of a Grain
\* Directory, and the grains the metadata takes
gtsize == Ceil(Grains, VhdSectorBytes)
gdsize == Ceil(Ceil(gtsize, 4), VhdSectorBytes)
overhead == (2 * (gdsize + gtsize) + GrainSectors) \div GrainSectors

\* _mk_common: header.u64RGDOffset and header.u64GDOffset, in sectors, and
\* the places of the two Grain Tables arrays (BAT.offset and BAT.offset2)
u64RGDOffset == 1
u64GDOffset == u64RGDOffset + gdsize + gtsize
BatOffset == (u64RGDOffset + gdsize) * VhdSectorBytes
BatOffset2 == BatOffset + (gdsize + gtsize) * VhdSectorBytes

\* _mk_common: the container of an empty extent: the header, the redundant
\* Grain Directory naming its table's sector, blank tables, the Grain
\* Directory, blank tables, zeros up to a whole number of grains
MkCommon ==
    [a \in 1..(overhead * GrainBytes) |->
        IF a - 1 < u64RGDOffset * VhdSectorBytes THEN 255
        ELSE IF a - 1 = u64RGDOffset * VhdSectorBytes THEN u64RGDOffset + gdsize
        ELSE IF a - 1 = u64GDOffset * VhdSectorBytes THEN u64GDOffset + gdsize
        ELSE 0]

\* Extent(name, mode)
ExtentInit ==
    [stream |-> MkCommon, bat |-> [g \in 0..(Grains - 1) |-> 0], pos |-> 0, raised |-> FALSE]

\* stream.seek(at); stream.read(n): what the file holds from at, n bytes at most
ShortRead(stream, at, n) ==
    [j \in 1..Min(n, Max(0, Len(stream) - at)) |-> stream[at + j]]

\* stream.seek(at); stream.write(s), the file growing with zeros up to at
Padded(stream, n) == stream \o [j \in 1..Max(0, n - Len(stream)) |-> 0]
Overlay(stream, at, s) ==
    SubSeq(stream, 1, at) \o s \o SubSeq(stream, at + Len(s) + 1, Len(stream))
ContainerWrite(stream, at, s) == Overlay(Padded(stream, at + Len(s)), at, s)

\* BAT.__setitem__: the entry and its two copies in the file
BatSet(e, index, value) ==
    [e EXCEPT !.bat[index] = value,
              !.stream = ContainerWrite(ContainerWrite(e.stream, BatOffset + index, <<value % 256>>),
                                     BatOffset2 + index, <<value % 256>>)]

\* Extent.seek(offset)
ExtentSeek(e, offset) == [e EXCEPT !.pos = offset, !.raised = (offset >= ExtentSize)]

\* Extent.read: the loop, a run inside one grain at a time
RECURSIVE ExtentReadLoop(_, _, _, _)
ExtentReadLoop(e, pos, size, buf) ==
    IF size = 0 THEN buf
    ELSE LET block == e.bat[pos \div GrainBytes]
             offset == pos % GrainBytes
             leftbytes == GrainBytes - offset
             got == IF leftbytes <= size THEN leftbytes ELSE size
         IN ExtentReadLoop(e, pos + got, size - got,
                           buf \o IF block = 0
                                  THEN [j \in 1..got |-> 0]
                                  ELSE ShortRead(e.stream, block * VhdSectorBytes + offset, got))

ExtentReadSize(pos, size) ==
    IF size = -1 \/ pos + size > ExtentSize THEN ExtentSize - pos ELSE size

ExtentRead(e, size) == ExtentReadLoop(e, e.pos, ExtentReadSize(e.pos, size), <<>>)

\* Extent.write: the loop, a run inside one grain at a time.  A run of zeros
\* for a grain the file does not hold marks the grain (or leaves its mark);
\* any other run for such a grain appends a grain of zeros to the file first.
NewGrain(e, index) ==
    [BatSet(e, index, Len(e.stream) \div VhdSectorBytes) EXCEPT
        !.stream = ContainerWrite(@, Len(e.stream) + GrainBytes - 1, <<0>>)]

RECURSIVE ExtentWriteLoop(_, _, _)
ExtentWriteLoop(e, s, i) ==
    IF i = Len(s) THEN e
    ELSE LET index == e.pos \div GrainBytes
             block == e.bat[index]
             offset == e.pos % GrainBytes
             leftbytes == GrainBytes - offset
             put == IF leftbytes <= Len(s) - i THEN leftbytes ELSE Len(s) - i
             run == SubSeq(s, i + 1, i + put)
         IN IF (block = 0 \/ block = ZEROED) /\ \A j \in 1..put : run[j] = 0
            THEN ExtentWriteLoop([(IF block = 0 THEN BatSet(e, index, ZEROED) ELSE e)
                                      EXCEPT !.pos = e.pos + put], s, i + put)
            ELSE ExtentWriteLoop(
                     [(IF block = 0 \/ block = ZEROED THEN NewGrain(e, index) ELSE e) EXCEPT
                         !.stream = ContainerWrite(@, (IF block = 0 \/ block = ZEROED
                                                    THEN Len(e.stream) \div VhdSectorBytes
                                                    ELSE block) * VhdSectorBytes + offset, run),
                         !.pos = e.pos + put],
                     s, i + put)

ExtentWrite(e, s) == ExtentWriteLoop([e EXCEPT !.raised = FALSE], s, 0)

InitVmdk ==
    /\ disk = DiskInit /\ shadow = <<>>
    /\ dres = [op |-> "none", good |-> TRUE, calls |-> 0]
    /\ vol = ExtentInit
    /\ gh = [op |-> "open", pos |-> 0, size |-> 0, buf |-> <<>>, calls |-> 0]

VmdkSeek ==
    \E offset \in 0..ExtentSize :
        /\ gh.calls < MaxVmdkCalls
        /\ vol' = ExtentSeek(vol, offset)
        /\ gh' = [op |-> "seek", pos |-> offset, size |-> 0, buf |-> <<>>,
                  calls |-> gh.calls + 1]
        /\ UNCHANGED diskvars

\* the counts of a call: a byte, a sector, a grain, and a grain and a byte
VmdkSizes == {1, VhdSectorBytes, GrainBytes, GrainBytes + 1}

\* Extent.write(s) inside the extent, s being zeros or bytes of value MaxByte
VmdkWrite ==
    \E n \in VmdkSizes, fill \in {0, MaxByte} :
        /\ gh.calls < MaxVmdkCalls
        /\ vol.pos + n <= ExtentSize
        /\ vol' = ExtentWrite(vol, [j \in 1..n |-> fill])
        /\ gh' = [op |-> "write", pos |-> vol.pos, size |-> n, buf |-> <<>>,
                  calls |-> gh.calls + 1]
        /\ UNCHANGED diskvars

\* Extent.read(size)
VmdkRead ==
    \E size \in VmdkSizes \cup {-1} :
        /\ gh.calls < MaxVmdkCalls
        /\ vol.pos < ExtentSize
        /\ vol' = [vol EXCEPT !.pos = vol.pos + ExtentReadSize(vol.pos, size),
                              !.raised = FALSE]
        /\ gh' = [op |-> "read", pos |-> vol.pos, size |-> ExtentReadSize(vol.pos, size),
                  buf |-> ExtentRead(vol, size), calls |-> gh.calls + 1]
        /\ UNCHANGED diskvars

NextVmdk == VmdkSeek \/ VmdkWrite \/ VmdkRead

SpecVmdk == InitVmdk /\ [][NextVmdk]_vars

\* C20: a read returns a zero for every byte asked for that lies in a grain
\* whose grain table entry is 1.
C20_ZeroedGrainReadsZeros ==
    gh.op = "read" =>
        \A j \in 1..gh.size :
            vol.bat[(gh.pos + j - 1) \div GrainBytes] = ZEROED
                => (j <= Len(gh.buf) /\ gh.buf[j] = 0)

\* ---------------------------------------------------------------------------
\* VHD writes and merge (vhdutils.py).  A call at level k of a chain works on
\* a record w: the chain's image files (imgs), the level (k), the image's
\* position (pos), the bytes to write (s), how many of them are written (i),
\* the bitmap held (bmp, as in read1Loop) and whether the call raised.
\* ---------------------------------------------------------------------------
StreamLen(stream) == Cardinality(DOMAIN stream)
Sq(stream) == [a \in 1..StreamLen(stream) |-> stream[a - 1]]
Fn(seq) == [a \in 0..(Len(seq) - 1) |-> seq[a + 1]]

\* stream.seek(at); stream.write(s)
StreamPut(stream, at, s) == Fn(ContainerWrite(Sq(stream), at, s))

\* footer.pack(): a sector
FooterBytes == [j \in 1..VhdSectorBytes |-> 255]

\* a | b on bytes
RECURSIVE ByteOr(_, _)
ByteOr(a, b) ==
    IF a = 0 THEN b ELSE IF b = 0 THEN a
    ELSE (IF a % 2 = 1 \/ b % 2 = 1 THEN 1 ELSE 0) + 2 * ByteOr(a \div 2, b \div 2)

\* BlockBitmap.set(sector, length): the bits of the first byte from the
\* sector's on, then whole bytes, then the leading bits of the byte after
setFirst(sector, length) == IF sector % 8 # 0 THEN Min(8 - (sector % 8), length) ELSE 0
setWhole(sector, length) == (length - setFirst(sector, length)) \div 8
setLast(sector, length) == (length - setFirst(sector, length)) % 8
setFrom(sector) == IF sector % 8 # 0 THEN (sector \div 8) + 1 ELSE sector \div 8

set(bmp, sector, length) ==
    [b \in DOMAIN bmp |->
        IF sector % 8 # 0 /\ b = sector \div 8
        THEN ByteOr(bmp[b], ((255 * 2 ^ (8 - setFirst(sector, length))) % 256)
                                \div (2 ^ (sector % 8)))
        ELSE IF b >= setFrom(sector) /\ b < setFrom(sector) + setWhole(sector, length)
        THEN 255
        ELSE IF setLast(sector, length) # 0
                /\ b = setFrom(sector) + setWhole(sector, length)
        THEN ByteOr(bmp[b], (255 * 2 ^ (8 - setLast(sector, length))) % 256)
        ELSE bmp[b]]

\* Image.has_block(i) of image k: a Fixed image has no table to look in
RECURSIVE has_block(_, _, _)
has_block(imgs, k, i) ==
    IF imgs[k].type = "fixed" THEN "raise"
    ELSE IF imgs[k].bat[i] # VIRTUAL THEN "yes"
    ELSE IF k > 1 THEN has_block(imgs, k - 1, i)
    ELSE "no"

\* the run of a loop's turn: the bytes up to the block's end
RunLen(w) == Min(VhdBlockBytes - (w.pos % VhdBlockBytes), Len(w.s) - w.i)
Run(w) == SubSeq(w.s, w.i + 1, w.i + RunLen(w))
Index(w) == w.pos \div VhdBlockBytes
Block(w) == w.imgs[w.k].bat[Index(w)]
Skip(w) == [w EXCEPT !.i = @ + RunLen(w), !.pos = @ + RunLen(w)]

\* the run written into the block the file holds
PutRun(w) ==
    [w EXCEPT !.imgs[w.k].stream =
                  StreamPut(@, Block(w) * VhdSectorBytes + bitmap_size
                                   + (w.pos % VhdBlockBytes), Run(w)),
              !.i = @ + RunLen(w), !.pos = @ + RunLen(w)]

\* write0: a Fixed image
write0(w) ==
    [w EXCEPT !.imgs[w.k].stream = StreamPut(@, w.pos, w.s),
              !.i = Len(w.s), !.pos = @ + Len(w.s)]

\* write: a new block over the old footer, every bit of its bitmap set, and
\* the footer after it
NewBlock(w) ==
    [w EXCEPT !.imgs[w.k].bat[Index(w)] =
                  (StreamLen(w.imgs[w.k].stream) - VhdSectorBytes) \div VhdSectorBytes,
              !.imgs[w.k].stream =
                  StreamPut(@, StreamLen(@) - VhdSectorBytes,
                            [j \in 1..bitmap_size |-> 255] \o Zeros(VhdBlockBytes)
                                \o FooterBytes)]

\* write: the loop of a Dynamic image
RECURSIVE writeLoop(_)
writeLoop(w) ==
    IF w.i = Len(w.s) THEN w
    ELSE IF Block(w) = VIRTUAL
    THEN IF Run(w) = Zeros(RunLen(w)) THEN writeLoop(Skip(w))
         ELSE writeLoop(PutRun(NewBlock(w)))
    ELSE writeLoop(PutRun(w))

\* write1: a new block over the old footer, no bit of its bitmap set, and
\* the footer after it
NewBlock1(w) ==
    [w EXCEPT !.imgs[w.k].bat[Index(w)] =
                  (StreamLen(w.imgs[w.k].stream) - VhdSectorBytes) \div VhdSectorBytes,
              !.imgs[w.k].stream =
                  StreamPut(@, StreamLen(@) - VhdSectorBytes,
                            Zeros(bitmap_size) \o Zeros(VhdBlockBytes) \o FooterBytes)]

\* write1: the bitmap held is written back
Commit(w) ==
    IF w.bmp.i = VIRTUAL THEN w
    ELSE [w EXCEPT !.imgs[w.k].stream = StreamPut(@, w.bmp.i * VhdSectorBytes, Sq(w.bmp.bmp))]

\* write1: the bitmap of the turn's block is the one held
Load(w) ==
    [w EXCEPT !.bmp = [i |-> Block(w),
                       bmp |-> [b \in 0..(bitmap_size - 1) |->
                                   w.imgs[w.k].stream[Block(w) * VhdSectorBytes + b]]]]

Acquire(w) == IF w.bmp.i = VIRTUAL \/ w.bmp.i # Block(w) THEN Load(Commit(w)) ELSE w

\* write1, copysect(vpos, sec): the parent's sector of vpos into sector sec
\* of the block, and the sector's bit set
copysect(w, vpos, sec) ==
    [w EXCEPT !.imgs[w.k].stream =
                  StreamPut(@, w.imgs[w.k].bat[vpos \div VhdBlockBytes] * VhdSectorBytes
                                   + bitmap_size + sec * VhdSectorBytes,
                            ImageRead(w.imgs, w.k - 1, (vpos \div VhdSectorBytes) * VhdSectorBytes,
                                      ReadSize((vpos \div VhdSectorBytes) * VhdSectorBytes,
                                               VhdSectorBytes))),
              !.bmp.bmp = set(@, sec, 1)]

\* write1: a run that starts or ends inside a sector whose bit is clear
Start(w) == (w.pos % VhdBlockBytes) \div VhdSectorBytes
Stop(w) == ((w.pos % VhdBlockBytes) + RunLen(w) - 1) \div VhdSectorBytes

HeadSector(w) ==
    IF (w.pos % VhdBlockBytes) % VhdSectorBytes # 0 /\ ~isset(w.bmp.bmp, Start(w))
    THEN copysect(w, w.pos, Start(w)) ELSE w

TailSector(w) ==
    IF ((w.pos % VhdBlockBytes) + RunLen(w)) % VhdSectorBytes # 0 /\ ~isset(w.bmp.bmp, Stop(w))
    THEN copysect(w, w.pos + RunLen(w) - 1, Stop(w)) ELSE w

Mark(w) == [w EXCEPT !.bmp.bmp = set(@, Start(w), Stop(w) - Start(w) + 1)]

\* write1: the loop of a Differencing image
RECURSIVE write1Loop(_)
write1Loop(w) ==
    IF w.raised THEN w
    ELSE IF w.i = Len(w.s) THEN Commit(w)
    ELSE IF Block(w) = VIRTUAL
    THEN IF has_block(w.imgs, w.k, Index(w)) = "raise" THEN [w EXCEPT !.raised = TRUE]
         ELSE IF has_block(w.imgs, w.k, Index(w)) = "no" /\ Run(w) = Zeros(RunLen(w))
         THEN write1Loop(Skip(w))
         ELSE write1Loop(PutRun(Mark(TailSector(HeadSector(Acquire(NewBlock1(w)))))))
    ELSE write1Loop(PutRun(Mark(TailSector(HeadSector(Acquire(w))))))

\* image k's write method at position pos, as Image.__init__ bound it to the
\* image's type
ImageWrite(imgs, k, pos, s) ==
    IF imgs[k].type = "fixed"
    THEN write0([imgs |-> imgs, k |-> k, pos |-> pos, s |-> s, i |-> 0, raised |-> FALSE,
                 bmp |-> [i |-> VIRTUAL, bmp |-> <<>>]])
    ELSE IF imgs[k].type = "dynamic"
    THEN writeLoop([imgs |-> imgs, k |-> k, pos |-> pos, s |-> s, i |-> 0, raised |-> FALSE,
                    bmp |-> [i |-> VIRTUAL, bmp |-> <<>>]])
    ELSE write1Loop([imgs |-> imgs, k |-> k, pos |-> pos, s |-> s, i |-> 0, raised |-> FALSE,
                     bmp |-> [i |-> VIRTUAL, bmp |-> <<>>]])

\* merge: sector j of block i of image k, its bit being set, is written to
\* the parent at the sector's place; m is the chain, whether the call raised
\* (the parent's seek past the disk's end, or its write) and the sectors
\* copied so far
Copied(w, n) == [imgs |-> w.imgs, raised |-> w.raised, sectors |-> n + 1]

\* a copy that leaves out the sectors holding zeros only
CopyUpData(m, k, i, j) ==
    IF ShortRead(Sq(m.imgs[k].stream),
                 m.imgs[k].bat[i] * VhdSectorBytes + bitmap_size + j * VhdSectorBytes,
                 VhdSectorBytes) = Zeros(VhdSectorBytes)
    THEN m
    ELSE Copied(ImageWrite(m.imgs, k - 1, i * VhdBlockBytes + j * VhdSectorBytes,
                           ShortRead(Sq(m.imgs[k].stream),
                                     m.imgs[k].bat[i] * VhdSectorBytes + bitmap_size
                                         + j * VhdSectorBytes,
                                     VhdSectorBytes)), m.sectors)

CopyUp(m, k, i, j) ==
    IF i * VhdBlockBytes + j * VhdSectorBytes >= VhdSize THEN [m EXCEPT !.raised = TRUE]
    ELSE Copied(ImageWrite(m.imgs, k - 1, i * VhdBlockBytes + j * VhdSectorBytes,
                           ShortRead(Sq(m.imgs[k].stream),
                                     m.imgs[k].bat[i] * VhdSectorBytes + bitmap_size
                                         + j * VhdSectorBytes,
                                     VhdSectorBytes)), m.sectors)

\* merge: the bitmap of block i of image k
BitmapOf(img, i) ==
    [b \in 0..(bitmap_size - 1) |-> img.stream[img.bat[i] * VhdSectorBytes + b]]

\* merge: the loops over the blocks and over the bits of a block's bitmap
RECURSIVE mergeLoop(_, _, _, _)
mergeLoop(m, k, i, j) ==
    IF m.raised \/ i >= VhdBlocks THEN m
    ELSE IF m.imgs[k].bat[i] = VIRTUAL \/ j >= bitmap_size * 8 THEN mergeLoop(m, k, i + 1, 0)
    ELSE IF isset(BitmapOf(m.imgs[k], i), j) THEN mergeLoop(CopyUp(m, k, i, j), k, i, j + 1)
    ELSE mergeLoop(m, k, i, j + 1)

\* Image.merge() of the last image of a chain; the file is removed when the
\* loops ended
Removed(m) == IF m.raised THEN m ELSE [m EXCEPT !.imgs = SubSeq(@, 1, Len(@) - 1)]

merge(imgs) ==
    IF Len(imgs) = 1 THEN [imgs |-> imgs, raised |-> FALSE, sectors |-> 0]
    ELSE Removed(mergeLoop([imgs |-> imgs, raised |-> FALSE, sectors |-> 0], Len(imgs), 0, 0))

MaxWrites == 1          \* writes made on a chain

\* chains whose last image may be written to and merged: a base and a child,
\* and chains of three over a Dynamic base holding every block or none
InitMerge ==
    /\ disk = DiskInit /\ shadow = <<>>
    /\ dres = [op |-> "none", good |-> TRUE, calls |-> 0]
    /\ \/ \E base \in BaseImages, child \in DiffImages(2) : vol = VhdImage(<<base, child>>)
       \/ \E held \in {{}, BlockSet}, mid \in EvenDiffImages(2), child \in EvenDiffImages(3) :
              vol = VhdImage(<<SparseImage("dynamic", 1, held, TRUE,
                                           [b \in BlockSet |-> BlockSectorSet]), mid, child>>)
    /\ gh = [op |-> "open", pos |-> 0, size |-> 0, buf |-> <<>>, calls |-> 0]

\* the offsets sought: a block's start, inside its first sector, its second
\* sector, its last byte, and inside the next block
MergeOffs == {0, 1, VhdSectorBytes, VhdBlockBytes - 1, VhdBlockBytes + VhdSectorBytes}

MergeSeek ==
    \E offset \in MergeOffs :
        /\ vol' = seek(vol, offset)
        /\ gh' = [gh EXCEPT !.op = "seek"]
        /\ UNCHANGED diskvars

Written(w) == [imgs |-> w.imgs, pos |-> w.pos, raised |-> w.raised]

\* Image.write(s) inside the disk, s being zeros or bytes of value 254
MergeWrite ==
    \E n \in {1, VhdSectorBytes, VhdSectorBytes + 1, VhdBlockBytes + 1}, fill \in {0, 254} :
        /\ gh.calls < MaxWrites
        /\ vol.pos + n <= VhdSize
        /\ vol' = Written(ImageWrite(vol.imgs, Len(vol.imgs), vol.pos, [j \in 1..n |-> fill]))
        /\ gh' = [gh EXCEPT !.op = "write", !.calls = @ + 1]
        /\ UNCHANGED diskvars

Reopened(m) == [imgs |-> m.imgs, pos |-> 0, raised |-> m.raised]

\* Image.merge(), and the parent opened afterwards; gh.size is the count of
\* sectors the call returns
VhdMerge ==
    /\ Len(vol.imgs) > 1
    /\ ~(gh.op = "merge" /\ vol.raised)
    /\ vol' = Reopened(merge(vol.imgs))
    /\ gh' = [gh EXCEPT !.op = "merge", !.size = merge(vol.imgs).sectors]
    /\ UNCHANGED diskvars

NextMerge == MergeSeek \/ MergeWrite \/ VhdMerge

SpecMerge == InitMerge /\ [][NextMerge]_vars

MaxMounts == 2       \* Image() calls in one run

RECURSIVE ByteSum(_, _)
ByteSum(s, k) == IF k > Len(s) THEN 0 ELSE s[k] + ByteSum(s, k + 1)

\* mk_crc(s): the one's complement of the sum of the bytes, packed as a
\* 32-bit integer.  The 32 bits of a checksum are written here as the
\* signed integer they encode
mk_crc(s) == (-ByteSum(s, 1)) - 1

\* Footer.isvalid(): a checksum that differs is logged when debugging
FooterIsValid(f) ==
    IF f.sCookie # "conectix" \/ f.dwCreatorHost \notin {"Wi2k", "Mac"} THEN FALSE
    ELSE TRUE

\* DynamicHeader.isvalid(): the same
HeaderIsValid(h) == IF h.sCookie # "cxsparse" THEN FALSE ELSE TRUE

Failed(why) == [phase |-> "failed", why |-> why]

\* vhdutils.Image(name, mode): the BAT of a Dynamic or Differencing file is
\* well formed
RECURSIVE VhdInit(_, _)
VhdInit(files, name) ==
    LET f == files[name] IN
    IF ~FooterIsValid(f.footer) THEN Failed("footer")
    ELSE IF f.footer.dwDiskType \notin {2, 3, 4} THEN Failed("type")
    ELSE IF f.footer.dwDiskType \in {3, 4} /\ ~FooterIsValid(f.footer_copy) THEN Failed("copy")
    ELSE IF f.footer.dwDiskType \in {3, 4} /\ f.footer # f.footer_copy THEN Failed("differ")
    ELSE IF f.footer.dwDiskType \in {3, 4} /\ ~HeaderIsValid(f.header) THEN Failed("header")
    ELSE IF f.footer.dwDiskType = 4 /\ f.parent = "" THEN Failed("parent not found")
    ELSE IF f.footer.dwDiskType = 4 /\ VhdInit(files, f.parent).phase = "failed"
         THEN VhdInit(files, f.parent)
    ELSE IF f.footer.dwDiskType = 4
            /\ files[f.parent].footer.sUniqueId # f.header.sParentUniqueId
         THEN Failed("UUID not matched")
    ELSE IF f.footer.dwDiskType = 2 /\ f.size # f.footer.u64CurrentSize THEN Failed("size")
    ELSE [phase |-> "open", why |-> ""]

\* '{%s}' % uuid.UUID(bytes_le=guid): the text is in lower case
GuidText(guid) == "{" \o guid \o "}"

\* vhdxutils.Image(name, mode): the parent is opened read-only, and its
\* data-write GUID is read in the header that was selected
RECURSIVE VhdxInit(_, _, _)
VhdxInit(files, name, mode) ==
    LET f == files[name] IN
    IF ImageInit(f, mode).phase # "open" THEN Failed("headers or log")
    ELSE IF f.file_params = 2 /\ f.parent = "" THEN Failed("parent not found")
    ELSE IF f.file_params = 2 /\ VhdxInit(files, f.parent, "rb").phase = "failed"
         THEN VhdxInit(files, f.parent, "rb")
    ELSE IF f.file_params = 2
            /\ GuidText(Selected(files[f.parent]).data) # f.parent_linkage
         THEN Failed("Data Write GUID does not match")
    ELSE [phase |-> "open", why |-> ""]

\* parse_ddf(): a CID or parentCID line is taken when 8 hexadecimal digits
\* follow the sign =, and the field stays 0 otherwise
Parsed(text) == IF text.digits >= 8 THEN text.value ELSE 0

\* parentCID=ffffffff; the 32 bits of a CID are written as the signed integer
\* they encode
NoParent == -1

\* vmdkutils.Image(name): the extents of the descriptor are well formed
RECURSIVE VmdkInit(_, _)
VmdkInit(files, name) ==
    LET ddf == files[name] IN
    IF Parsed(ddf.CID) = 0 \/ ~ddf.extents THEN Failed("not a descriptor")
    ELSE IF Parsed(ddf.parentCID) # NoParent /\ ddf.parentFileNameHint = ""
         THEN Failed("parent not found")
    ELSE IF Parsed(ddf.parentCID) # NoParent
            /\ VmdkInit(files, ddf.parentFileNameHint).phase = "failed"
         THEN VmdkInit(files, ddf.parentFileNameHint)
    ELSE IF Parsed(ddf.parentCID) # NoParent
            /\ Parsed(files[ddf.parentFileNameHint].CID) # Parsed(ddf.parentCID)
         THEN Failed("CIDs do not match")
    ELSE [phase |-> "open", why |-> ""]

\* the footers of the files: the stored checksum is that of the buffer or
\* one more
Footers(types) ==
    {[sCookie |-> c, dwCreatorHost |-> h, dwDiskType |-> t, sUniqueId |-> u,
      u64CurrentSize |-> VhdSize, buf |-> <<1, 255>>,
      dwChecksum |-> mk_crc(<<1, 255>>) + d] :
        c \in {"conectix", "conectiy"}, h \in {"Wi2k", "Py"}, t \in types,
        u \in {"u1", "u2"}, d \in {0, 1}}

DynHeaders(ids) ==
    {[sCookie |-> c, sParentUniqueId |-> u, buf |-> <<2, 3>>,
      dwChecksum |-> mk_crc(<<2, 3>>) + d] :
        c \in {"cxsparse", "cxsparsf"}, u \in ids, d \in {0, 1}}

VhdFile(footer, copy, header, parent, size) ==
    [footer |-> footer, footer_copy |-> copy, header |-> header, parent |-> parent,
     size |-> size]

\* a base that is Fixed or Dynamic, and a child of any type naming it
VhdFiles ==
    {[base |-> VhdFile(bf, bf, bh, "", VhdSize), child |-> VhdFile(cf, cc, ch, p, s)] :
        bf \in {f \in Footers({2, 3}) : f.sCookie = "conectix" /\ f.dwCreatorHost = "Wi2k"},
        bh \in {h \in DynHeaders({""}) : h.sCookie = "cxsparse"},
        cf \in {f \in Footers({0, 2, 3, 4}) : f.sUniqueId = "u2"},
        cc \in {f \in Footers({4}) : f.sUniqueId = "u2" /\ f.dwCreatorHost = "Wi2k"},
        ch \in DynHeaders({"u1", "u2"}),
        p \in {"", "base"}, s \in {VhdSize, VhdSize + VhdSectorBytes}}

MountHeaders ==
    [valid : BOOLEAN, seq : {1, 2}, guid : {"null", "g1"}, data : {"a", "b"}]

VhdxFile(h1, h2, params, linkage, parent) ==
    [h1 |-> h1, h2 |-> h2, log |-> [k \in 1..LogPages |-> NoPage],
     file |-> [k \in 1..FilePages |-> OldCell],
     phase |-> "closed", active |-> FALSE, replayed |-> FALSE,
     file_params |-> params, parent_linkage |-> linkage, parent |-> parent]

VhdxFiles ==
    {[base |-> VhdxFile(b1, b2, 0, "", ""), child |-> VhdxFile(c1, c1, params, linkage, p)] :
        b1 \in MountHeaders, b2 \in MountHeaders,
        c1 \in {h \in MountHeaders : h.seq = 1 /\ h.data = "a"},
        params \in {0, 2}, linkage \in {"{a}", "{b}", "{A}"}, p \in {"", "base"}}

CidTexts ==
    {[digits |-> 8, value |-> -2], [digits |-> 8, value |-> 42],
     [digits |-> 8, value |-> NoParent], [digits |-> 7, value |-> 42],
     [digits |-> 8, value |-> 0]}

VmdkFiles ==
    {[base |-> [CID |-> b, parentCID |-> bp, parentFileNameHint |-> "", extents |-> TRUE],
      child |-> [CID |-> c, parentCID |-> cp, parentFileNameHint |-> p, extents |-> e]] :
        b \in CidTexts, bp \in {t \in CidTexts : t.value \in {NoParent, 42}},
        c \in {t \in CidTexts : t.value = -2}, cp \in CidTexts,
        p \in {"", "base"}, e \in BOOLEAN}

InitMount ==
    /\ disk = DiskInit /\ shadow = <<>>
    /\ dres = [op |-> "none", good |-> TRUE, calls |-> 0]
    /\ \/ \E files \in VhdFiles : vol = [kind |-> "vhd", files |-> files, phase |-> "closed"]
       \/ \E files \in VhdxFiles : vol = [kind |-> "vhdx", files |-> files, phase |-> "closed"]
       \/ \E files \in VmdkFiles : vol = [kind |-> "vmdk", files |-> files, phase |-> "closed"]
    /\ gh = [op |-> "none", calls |-> 0, size |-> 0]

\* vhdutils.Image("child")
MountVhd ==
    /\ vol.kind = "vhd" /\ vol.phase = "closed" /\ gh.calls < MaxMounts
    /\ vol' = [vol EXCEPT !.phase = VhdInit(vol.files, "child").phase]
    /\ gh' = [gh EXCEPT !.op = "open", !.calls = @ + 1]
    /\ UNCHANGED diskvars

\* vhdxutils.Image("child", mode)
MountVhdx ==
    \E mode \in {"rb", "r+b"} :
        /\ vol.kind = "vhdx" /\ vol.phase = "closed" /\ gh.calls < MaxMounts
        /\ vol' = [vol EXCEPT !.phase = VhdxInit(vol.files, "child", mode).phase]
        /\ gh' = [gh EXCEPT !.op = "open", !.calls = @ + 1]
        /\ UNCHANGED diskvars

\* vmdkutils.Image("child")
MountVmdk ==
    /\ vol.kind = "vmdk" /\ vol.phase = "closed" /\ gh.calls < MaxMounts
    /\ vol' = [vol EXCEPT !.phase = VmdkInit(vol.files, "child").phase]
    /\ gh' = [gh EXCEPT !.op = "open", !.calls = @ + 1]
    /\ UNCHANGED diskvars

\* Image.read(size) on the image that was opened: size bytes are given
MountRead ==
    \E size \in {1, VhdSectorBytes} :
        /\ vol.phase = "open"
        /\ gh' = [gh EXCEPT !.op = "read", !.size = size]
        /\ UNCHANGED <<vol, disk, shadow, dres>>

\* Image.close() of an image that was not written to, or the end of the
\* constructor that raised
Unmount ==
    /\ vol.phase \in {"open", "failed"}
    /\ vol' = [vol EXCEPT !.phase = "closed"]
    /\ gh' = [gh EXCEPT !.op = "close"]
    /\ UNCHANGED diskvars

NextMount == MountVhd \/ MountVhdx \/ MountVmdk \/ MountRead \/ Unmount

SpecMount == InitMount /\ [][NextMount]_vars

\* the stored checksum of a footer or header is that of its buffer
ChecksumOk(s) == s.dwChecksum = mk_crc(s.buf)

\* C22: a VHD image that is open, and every read served from it, has a
\* footer whose checksum equals the stored value and, when Dynamic or
\* Differencing, a footer copy and a dynamic header with the same property.
C22_BadChecksumRejected ==
    (vol.kind = "vhd" /\ vol.phase = "open")
        => (/\ ChecksumOk(vol.files["child"].footer)
            /\ vol.files["child"].footer.dwDiskType \in {3, 4}
                   => (/\ ChecksumOk(vol.files["child"].footer_copy)
                       /\ ChecksumOk(vol.files["child"].header)))

\* the image has a parent by its format
HasParent(v) ==
    CASE v.kind = "vhd" -> v.files["child"].footer.dwDiskType = 4
      [] v.kind = "vhdx" -> v.files["child"].file_params = 2
      [] v.kind = "vmdk" -> Parsed(v.files["child"].parentCID) # NoParent

\* the parent identifier the child recorded is that of the parent's file
ParentLinked(v) ==
    CASE v.kind = "vhd" ->
             v.files["child"].header.sParentUniqueId = v.files["base"].footer.sUniqueId
      [] v.kind = "vhdx" ->
             v.files["child"].parent_linkage = GuidText(CurrentHeader(v.files["base"]).data)
      [] v.kind = "vmdk" ->
             Parsed(v.files["child"].parentCID) = Parsed(v.files["base"].CID)

\* C23: a child image that is open recorded the identifier its parent holds:
\* the unique id of the parent's footer (VHD), the data-write GUID of the
\* parent's current header (VHDX), the CID of the parent's descriptor (VMDK).
C23_ParentLinkage ==
    (vol.phase = "open" /\ HasParent(vol)) => ParentLinked(vol)

(***************************************************************************)
(* The FAT formatters (mkfat.py).  Sizes are counted in sectors of 512     *)
(* bytes, the default of the parameter sector: the disk is size sectors    *)
(* long, a cluster of 2^i bytes is spc = 2^(i-9) sectors, and the sizes of *)
(* the model are below 2^31 sectors.  vol is what the last call gave: ret  *)
(* its return value, and for a volume that was made (ret = 0) the file     *)
(* system, the clusters and the cluster size in fsinfo.                    *)
(***************************************************************************)
MaxSwitch == 4       \* formatters called by one another in one call
MaxFormats == 1      \* disks formatted in one run

\* (bits*(clusters+2))//8 bytes in whole sectors, the sectors of one FAT copy:
\* 12*n//8 is n + n//2, and the sectors of 2*n and 4*n bytes are those of n
\* bytes in sectors of 256 and 128
FatSize(bits, clusters) ==
    CASE bits = 12 -> (((clusters + 2) + ((clusters + 2) \div 2)) + 511) \div 512
      [] bits = 16 -> (clusters + 2 + 255) \div 256
      [] bits = 32 -> (clusters + 2 + 127) \div 128

Required(bits, clusters, spc, copies, reserved) ==
    spc * clusters + copies * FatSize(bits, clusters) + reserved

\* while required_size > size: clusters -= 2.  An iteration lowers
\* required_size by two clusters and at most one sector of each FAT copy, so
\* the iterations that cannot end the loop are taken in one stride
RECURSIVE FitLoop(_, _, _, _, _, _)
FitLoop(bits, clusters, spc, copies, reserved, size) ==
    IF Required(bits, clusters, spc, copies, reserved) <= size THEN clusters
    ELSE FitLoop(bits,
                 clusters - 2 * Max(1, (Required(bits, clusters, spc, copies, reserved) - size)
                                          \div (2 * spc + copies)),
                 spc, copies, reserved, size)

Even(n) == IF n % 2 = 1 THEN n - 1 ELSE n

\* the clusters of the candidate with clusters of spc sectors
Candidate(bits, spc, copies, reserved, size) ==
    FitLoop(bits, Even((size - reserved) \div spc), spc, copies, reserved, size)

ClusterSizes == {1, 2, 4, 8, 16, 32, 64, 128}

\* the test that drops a candidate
Dropped(bits, clusters, few) ==
    CASE bits = 12 -> clusters > 4085
      [] bits = 16 -> clusters < 4086 \/ clusters > 65525
      [] bits = 32 -> (clusters < 65526 /\ ~few) \/ clusters > 268435446

ReservedOf(bits) == CASE bits = 12 -> 1 + 14 [] bits = 16 -> 1 + 32 [] bits = 32 -> 32

Allowed(bits, size, few) ==
    {spc \in ClusterSizes : ~Dropped(bits, Candidate(bits, spc, 2, ReservedOf(bits), size), few)}

\* the MS-inspired selection of the cluster size (sectors) by the disk size
Default(bits, size) ==
    CASE bits = 12 ->
             IF size <= 4096 THEN 1 ELSE IF size <= 8170 THEN 2
             ELSE IF 8192 < size /\ size <= 16340 THEN 4
             ELSE IF 16384 < size /\ size <= 32680 THEN 8
             ELSE IF 32768 < size /\ size <= 65360 THEN 16
             ELSE IF 65536 < size /\ size <= 130720 THEN 32
             ELSE IF 131072 < size /\ size <= 261440 THEN 64 ELSE 128
      [] bits = 16 ->
             IF size <= 65536 THEN 1 ELSE IF size <= 131072 THEN 2
             ELSE IF size <= 262144 THEN 4 ELSE IF size <= 524288 THEN 8
             ELSE IF size <= 1048576 THEN 16 ELSE IF size <= 2097152 THEN 32
             ELSE IF size <= 4194304 THEN 64 ELSE 128
      [] bits = 32 ->
             IF size <= 131072 THEN 1 ELSE IF size <= 262144 THEN 2
             ELSE IF size <= 524288 THEN 4 ELSE IF size <= 16777216 THEN 8
             ELSE IF size <= 33554432 THEN 16 ELSE IF size <= 67108864 THEN 32
             ELSE 64

Applied(bits, spc, p) ==
    [ret |-> "0", fs |-> bits, size |-> p.size, cluster_size |-> spc,
     clusters |-> Candidate(bits, spc, 2, ReservedOf(bits), p.size)]

Gave(ret, p) == [ret |-> ret, fs |-> 0, size |-> p.size, cluster_size |-> 0, clusters |-> 0]

\* the cluster size taken when some are allowed; allowed[...] of a size that
\* is not allowed raises KeyError
Select(bits, p) ==
    IF p.wanted_cluster = 0
    THEN IF Default(bits, p.size) \in Allowed(bits, p.size, p.few)
         THEN Applied(bits, Default(bits, p.size), p) ELSE Gave("raise", p)
    ELSE Applied(bits, p.wanted_cluster, p)

\* fat12_mkfs, fat16_mkfs, fat32_mkfs (bits tells which) with the calls they
\* make to one another: left is the calls that may still be made before the
\* interpreter stops the recursion
RECURSIVE mkfs(_, _, _)
mkfs(bits, p, left) ==
    IF left = 0 THEN Gave("recursion", p)
    ELSE IF bits # 32 /\ p.size < 16 THEN Gave("1", p)
    ELSE IF bits = 12 THEN
        IF Allowed(12, p.size, p.few) = {}
        THEN IF Candidate(12, 128, 2, ReservedOf(12), p.size) > 4085
             THEN mkfs(16, p, left - 1) ELSE Gave("1", p)
        ELSE IF p.wanted_cluster # 0 /\ p.wanted_cluster \notin Allowed(12, p.size, p.few)
             THEN Gave("-1", p)
        ELSE Select(12, p)
    ELSE IF bits = 16 THEN
        IF Allowed(16, p.size, p.few) = {}
        THEN IF Candidate(16, 128, 2, ReservedOf(16), p.size) > 65525
             THEN mkfs(32, p, left - 1)
             ELSE IF Candidate(16, 128, 2, ReservedOf(16), p.size) < 4086
             THEN mkfs(12, p, left - 1) ELSE Gave("1", p)
        ELSE IF p.wanted_cluster # 0 /\ p.wanted_cluster \notin Allowed(16, p.size, p.few)
             THEN IF p.wanted_fs = "fat16" THEN Gave("-1", p) ELSE mkfs(32, p, left - 1)
        ELSE Select(16, p)
    ELSE
        IF Allowed(32, p.size, p.few) = {}
        THEN IF Candidate(32, 128, 2, ReservedOf(32), p.size) < 65526
             THEN mkfs(16, p, left - 1)
             ELSE IF p.wanted_fs = "fat32" THEN Gave("-1", p) ELSE Gave("exfat", p)
        ELSE IF p.wanted_cluster # 0 /\ p.wanted_cluster \notin Allowed(32, p.size, p.few)
             THEN mkfs(16, p, left - 1)
        ELSE Select(32, p)

\* disk sizes about the limits of the three variants, and some between
MkfsSizes ==
    (8..20) \cup (4090..4160) \cup (66050..66090) \cup {131072, 262144}
        \cup {1077936112, 1077936120, 1077936128}

MkfsParams ==
    [size : MkfsSizes, wanted_cluster : {0, 1, 4}, wanted_fs : {"", "fat16", "fat32"},
     few : BOOLEAN]

InitMkfs ==
    /\ disk = DiskInit /\ shadow = <<>>
    /\ dres = [op |-> "none", good |-> TRUE, calls |-> 0]
    /\ vol = [ret |-> "none", fs |-> 0, size |-> 0, cluster_size |-> 0, clusters |-> 0]
    /\ gh = [op |-> "none", calls |-> 0]

fat12_mkfs ==
    \E p \in MkfsParams :
        /\ gh.calls < MaxFormats
        /\ vol' = mkfs(12, p, MaxSwitch)
        /\ gh' = [op |-> "fat12_mkfs", calls |-> gh.calls + 1]
        /\ UNCHANGED diskvars

fat16_mkfs ==
    \E p \in MkfsParams :
        /\ gh.calls < MaxFormats
        /\ vol' = mkfs(16, p, MaxSwitch)
        /\ gh' = [op |-> "fat16_mkfs", calls |-> gh.calls + 1]
        /\ UNCHANGED diskvars

fat32_mkfs ==
    \E p \in MkfsParams :
        /\ gh.calls < MaxFormats
        /\ vol' = mkfs(32, p, MaxSwitch)
        /\ gh' = [op |-> "fat32_mkfs", calls |-> gh.calls + 1]
        /\ UNCHANGED diskvars

NextMkfs == fat12_mkfs \/ fat16_mkfs \/ fat32_mkfs

SpecMkfs == InitMkfs /\ [][NextMkfs]_vars

\* C24: a volume that was formatted has at most 4084 clusters as FAT12, 4085
\* to 65524 clusters as FAT16, and at most 2^28 - 11 clusters as FAT32.
C24_ClusterCountInRange ==
    vol.ret = "0"
        => (/\ vol.fs = 12 => vol.clusters <= 4084
            /\ vol.fs = 16 => (4085 <= vol.clusters /\ vol.clusters <= 65524)
            /\ vol.fs = 32 => vol.clusters <= 268435445)

(***************************************************************************)
(* Files renamed while a handle on them is open: create, write, rename and *)
(* close on the tables of one volume.                                      *)
(***************************************************************************)
MaxRenCalls == 5     \* calls in one run on a volume whose files are renamed

InitRen ==
    /\ vol = Mount(NumClusters, FatInit(NumClusters).area, FreshData(NumClusters))
    /\ gh = [op |-> "mount", calls |-> 0, limit |-> MaxRenCalls, h |-> 0, dir |-> 0,
             name |-> "", len |-> 0, free |-> 0]
    /\ disk = DiskInit
    /\ shadow = <<>>
    /\ dres = [op |-> "none", good |-> TRUE, calls |-> 0]

NextRen == VolCreateNew \/ VolOpen \/ VolWrite \/ TableRename \/ VolClose

SpecRen == InitRen /\ [][NextRen]_vars

\* the handle h is open, was written through, and its entry was renamed
\* since: the table holds no erase in this specification, so the erased mark
\* of the entry is that of rename()
WrittenRenamed(v, h) ==
    /\ h \in 1..Len(v.hs) /\ v.hs[h].IsValid /\ ~v.hs[h].IsReadOnly
    /\ v.hs[h].File.start # 0
    /\ v.ents[v.hs[h].Entry].e5

\* C25: closing a handle that was written through and whose entry was renamed
\* leaves every slot of the FAT as it was: the chain of the file is neither
\* freed nor altered.
C25_CloseKeepsRenamedChain ==
    [][(gh'.op = "close" /\ WrittenRenamed(vol, gh'.h)) => vol'.area = vol.area]_vars

\* C26: the free-cluster counter equals the total length of the runs of the
\* free-run map, after every call that returned.
C26_FreeCountIsMapTotal ==
    ~vol.raised
        => vol.free_clusters = RunsLen(vol.free_clusters_map, Len(vol.free_clusters_map))

\* ---------------------------------------------------------------------------
\* Files opened through a path: root.open("d/a")
\* ---------------------------------------------------------------------------

MaxPathCalls == 6    \* calls in one run on a tree whose files are opened by path

\* Dirtable.open(name) on the table dk, name being path/fname: os.path.split
\* gives the directory, opendir its table, find the entry in that table; the
\* handle records dk as its Dir and joins the filetable of dk
OpenPath(v, dk, path, fname) ==
    LET r == Opendir(v, dk, path)
        e == Find(r, r.found, fname)
        Got(w) ==
            IF w.raised THEN [w EXCEPT !.ch = NoChain, !.ret = 0]
            ELSE [w EXCEPT !.hs = Append(@, [IsValid |-> TRUE, IsReadOnly |-> TRUE,
                                             Entry |-> e, Dir |-> dk,
                                             File |-> w.ch, held |-> FALSE]),
                           !.dirtable[dk].Open = Append(@, Len(w.hs) + 1),
                           !.ch = NoChain,
                           !.ret = Len(w.hs) + 1]
    IN IF v.raised THEN v
       ELSE IF r.raised THEN r
       ELSE IF r.found = 0 THEN [r EXCEPT !.raised = TRUE]
       ELSE IF e = 0 THEN [r EXCEPT !.ret = 0]
       ELSE IF r.ents[e].isdir THEN [r EXCEPT !.ret = 0]
       ELSE Got(ChainOpen(r, r.ents[e].start, r.ents[e].size))

InitPath ==
    /\ vol = Mount(NumClusters, FatInit(NumClusters).area, FreshData(NumClusters))
    /\ gh = [op |-> "mount", calls |-> 0, limit |-> MaxPathCalls, h |-> 0, dir |-> 0,
             name |-> "", len |-> 0, free |-> 0]
    /\ disk = DiskInit
    /\ shadow = <<>>
    /\ dres = [op |-> "none", good |-> TRUE, calls |-> 0]

\* root.open(path/name) on a file the caller does not hold a handle of
VolOpenPath ==
    \E path \in DirNames, name \in FileNames :
        LET r == Opendir(Begin(vol), RootCluster, path)
            Got(w) == IF w.raised THEN w ELSE [w EXCEPT !.hs[w.ret].held = TRUE]
        IN /\ Ready
           /\ Len(vol.hs) < MaxHandles
           /\ r.found # 0 /\ ~r.raised
           /\ Find(r, r.found, name) # 0
           /\ ~r.ents[Find(r, r.found, name)].isdir
           /\ \A h \in 1..Len(vol.hs) :
                  vol.hs[h].held => vol.hs[h].Entry # Find(r, r.found, name)
           /\ vol' = End(Got(OpenPath(Begin(vol), RootCluster, path, name)))
           /\ gh' = Call("openpath", vol'.ret, r.found, name, 0, 0)
           /\ UNCHANGED diskvars

NextPath == VolMkdir \/ VolCreateNew \/ VolOpenPath \/ VolWrite \/ VolClose

SpecPath == InitPath /\ [][NextPath]_vars

\* the subdirectories whose name index holds the entry e
Holders(v, e) ==
    {dk \in DOMAIN v.dirtable \ {RootCluster} :
        \E n \in DOMAIN v.dirtable[dk].Names : v.dirtable[dk].Names[n] = e}

\* the handle h, written to, is of a file of a directory other than the root
\* and was obtained from the root
ThroughPath(v, h) ==
    /\ h \in 1..Len(v.hs)
    /\ v.hs[h].IsValid /\ ~v.hs[h].IsReadOnly
    /\ v.hs[h].Dir = RootCluster
    /\ Holders(v, v.hs[h].Entry) # {}

\* the slot of the entry e, as the stream of the table dk holds it
SlotIn(v, dk, e) == ChainCells(v, v.dirtable[dk].stream)[v.ents[e].pos + 1]

\* C27: closing a handle that root.open(path) gave for a file of a
\* subdirectory writes the entry into the stream and the name index of that
\* subdirectory, and leaves the stream, the name index and the open-handle list
\* of the root as they were.
C27_PathHandleClosesInItsDirectory ==
    [][(gh'.op = "close" /\ ThroughPath(vol, gh'.h) /\ ~vol'.raised)
          => \A dk \in Holders(vol, vol.hs[gh'.h].Entry) :
                 /\ SlotIn(vol', dk, vol.hs[gh'.h].Entry)
                        = SlotCell(Pack(vol'.ents[vol.hs[gh'.h].Entry]))
                 /\ Holders(vol', vol.hs[gh'.h].Entry) = {dk}
                 /\ ChainCells(vol', vol'.dirtable[RootCluster].stream)
                        = ChainCells(vol, vol.dirtable[RootCluster].stream)
                 /\ vol'.dirtable[RootCluster].Names = vol.dirtable[RootCluster].Names
                 /\ vol'.dirtable[RootCluster].Open = vol.dirtable[RootCluster].Open]_vars

\* ---------------------------------------------------------------------------
\* VHDX: reading the virtual disk through the block allocation table
\* ---------------------------------------------------------------------------

PayloadLen == 4      \* bytes of a payload block
SectorLen == 2       \* bytes of a logical sector
PayloadBlocks == 2   \* payload blocks of the virtual disk
MaxVhdxCalls == 2    \* seek and read calls in one run

VirtualLen == PayloadLen * PayloadBlocks
VirtualSectors == VirtualLen \div SectorLen

\* the byte the file of the image k holds for the virtual offset p: never zero
OwnByte(k, p) == (100 * k) + p + 1
OwnBytes(k, p, n) == [j \in 1..n |-> OwnByte(k, p + j - 1)]
ZeroBytes(n) == [j \in 1..n |-> 0]

\* Image._offset_info(offset): the status of the payload block of the offset
BlockStatus(im, offset) == im.bat[(offset \div PayloadLen) + 1]

RECURSIVE VhdxSeek(_, _, _)
RECURSIVE VhdxRead(_, _, _)
RECURSIVE VhdxReadLoop(_, _, _)
RECURSIVE VhdxSectorLoop(_, _, _, _)

\* Image.seek(offset) and Image.seek(offset, 1), offset being the position
\* asked for: the image k of the chain r.ims, whose parent is the image k + 1
VhdxSeek(r, k, offset) ==
    LET p == IF offset < 0 THEN 0 ELSE offset
        s == [r EXCEPT !.ims[k]._pos = p]
    IN IF r.raised THEN r
       ELSE IF p >= VirtualLen THEN [s EXCEPT !.raised = TRUE]
       ELSE IF k < Len(r.ims) THEN VhdxSeek(s, k + 1, p)
       ELSE s

\* the loop on the sectors of a PAYLOAD_BLOCK_PARTIALLY_PRESENT block: a
\* sector whose bit is set is read from the file, the others from the parent,
\* and the stream that was not read is moved by the same amount
VhdxSectorLoop(r, k, got, sec_bi) ==
    LET im == r.ims[k]
        cb == Min(IF im._pos % SectorLen # 0 THEN SectorLen - (im._pos % SectorLen)
                  ELSE SectorLen,
                  got)
        Step(w) ==
            IF w.raised THEN w
            ELSE VhdxSectorLoop([w EXCEPT !.ims[k]._pos = @ + cb], k, got - cb, sec_bi + 1)
    IN IF r.raised \/ got = 0 THEN r
       ELSE IF sec_bi \in im.bits
       THEN Step(VhdxSeek([r EXCEPT !.buf = @ \o OwnBytes(k, im.stream, cb),
                                    !.ims[k].stream = @ + cb],
                          k + 1, r.ims[k + 1]._pos + cb))
       ELSE Step([VhdxRead(r, k + 1, cb) EXCEPT !.ims[k].stream = @ + cb])

\* the loop of Image.read: one payload block at a time.  A block that is
\* PAYLOAD_BLOCK_NOT_PRESENT in an image without parent sets blk_s to 2 inside
\* the first branch of the chain of tests, so no branch adds its bytes
VhdxReadLoop(r, k, size) ==
    LET im == r.ims[k]
        blk_s == BlockStatus(im, im._pos)
        offset == im._pos % PayloadLen
        leftbytes == PayloadLen - offset
        got == IF leftbytes <= size THEN leftbytes ELSE size
        left == IF leftbytes <= size THEN size - leftbytes ELSE 0
        Step(w, n) ==
            IF w.raised THEN w
            ELSE VhdxReadLoop([w EXCEPT !.ims[k]._pos = @ + n], k, left)
        Loaded == IF im.bmp_s = 6 THEN [r EXCEPT !.ims[k].bmp = TRUE] ELSE r
    IN IF r.raised \/ size = 0 THEN r
       ELSE IF blk_s = 0
       THEN IF k = Len(r.ims) THEN Step(r, got)
            ELSE Step(VhdxRead(VhdxSeek(r, k + 1, im._pos), k + 1, got), got)
       ELSE IF blk_s \in {1, 2, 3} THEN Step([r EXCEPT !.buf = @ \o ZeroBytes(got)], got)
       ELSE IF blk_s = 6
       THEN Step([r EXCEPT !.buf = @ \o OwnBytes(k, im._pos, got),
                           !.ims[k].stream = im._pos + got], got)
       ELSE IF blk_s = 7
       THEN IF k = Len(r.ims) THEN [r EXCEPT !.raised = TRUE]
            ELSE IF ~Loaded.ims[k].bmp THEN [r EXCEPT !.raised = TRUE]
            ELSE Step(VhdxSectorLoop(
                          VhdxSeek([Loaded EXCEPT !.ims[k].stream = im._pos], k + 1, im._pos),
                          k, got, (im._pos \div SectorLen) % VirtualSectors),
                      0)
       ELSE [r EXCEPT !.raised = TRUE]

\* Image.read(size) on the image k: its bytes are added to r.buf
VhdxRead(r, k, size) ==
    IF r.raised THEN r
    ELSE VhdxReadLoop(r, k, IF size = -1 \/ r.ims[k]._pos + size > VirtualLen
                            THEN VirtualLen - r.ims[k]._pos
                            ELSE size)

\* the images a file can hold: an image without parent has no partially
\* present block; one that has such a block has its sector bitmap block
ParentImages ==
    {[bat |-> b, bmp_s |-> 0, bits |-> {}, bmp |-> FALSE, _pos |-> 0, stream |-> 0] :
        b \in [1..PayloadBlocks -> {0, 1, 2, 3, 6}]}
ChildImages ==
    {[bat |-> b, bmp_s |-> 6, bits |-> s, bmp |-> FALSE, _pos |-> 0, stream |-> 0] :
        b \in [1..PayloadBlocks -> {0, 1, 2, 3, 6, 7}], s \in SUBSET (0..(VirtualSectors - 1))}
ImageChains ==
    {<<p>> : p \in ParentImages}
        \cup {<<c, p>> : c \in {i \in ChildImages : i.bits # {} <=> \E j \in 1..PayloadBlocks : i.bat[j] = 7},
                         p \in {i \in ParentImages : \A j \in 1..PayloadBlocks : i.bat[j] \in {0, 2, 6}}}

InitVhdxRead ==
    /\ \E c \in ImageChains : vol = [ims |-> c, buf |-> <<>>, raised |-> FALSE]
    /\ gh = [op |-> "open", calls |-> 0, size |-> 0, from |-> 0]
    /\ disk = DiskInit
    /\ shadow = <<>>
    /\ dres = [op |-> "none", good |-> TRUE, calls |-> 0]

\* image.seek(offset)
VhdxSeekCall ==
    \E offset \in 0..VirtualLen :
        /\ gh.calls < MaxVhdxCalls /\ ~vol.raised
        /\ vol' = VhdxSeek([vol EXCEPT !.buf = <<>>], 1, offset)
        /\ gh' = [op |-> "seek", calls |-> gh.calls + 1, size |-> offset, from |-> vol.ims[1]._pos]
        /\ UNCHANGED diskvars

\* image.read(size)
VhdxReadCall ==
    \E size \in 1..VirtualLen :
        /\ gh.calls < MaxVhdxCalls /\ ~vol.raised
        /\ vol' = VhdxRead([vol EXCEPT !.buf = <<>>], 1, size)
        /\ gh' = [op |-> "read", calls |-> gh.calls + 1, size |-> size, from |-> vol.ims[1]._pos]
        /\ UNCHANGED diskvars

NextVhdxRead == VhdxSeekCall \/ VhdxReadCall

SpecVhdxRead == InitVhdxRead /\ [][NextVhdxRead]_vars

\* the read that has just ended asked for bytes that lie before the virtual end
ReadInside == gh.op = "read" /\ gh.from + gh.size <= VirtualLen

\* the range of the read lies in blocks that are PAYLOAD_BLOCK_NOT_PRESENT
Absent(im, from, size) ==
    \A p \in from..(from + size - 1) : BlockStatus(im, p) = 0

\* C28: a read of n bytes at a position with n bytes before the virtual end
\* returns n bytes and moves the position by n, whatever the status of the
\* payload blocks; in an image without parent a range of blocks that are not
\* present reads as zeros.
C28_ReadReturnsAllBytes ==
    ReadInside
        => /\ ~vol.raised
           /\ Len(vol.buf) = gh.size
           /\ vol.ims[1]._pos = gh.from + gh.size
           /\ (Len(vol.ims) = 1 /\ Absent(vol.ims[1], gh.from, gh.size))
                  => vol.buf = ZeroBytes(gh.size)

\* ---------------------------------------------------------------------------
\* VHDX: the scan of the log region, one turn of its loop at a time
\* ---------------------------------------------------------------------------

\* In this specification vol is a running LogStream.find_sequence(): the
\* pages of the log, the log GUID of the header, the variables i, tail, seq,
\* loop and sequence of the function, and phase: scan while the loop runs,
\* found or corrupted once the function returned or raised.

\* the end of a turn that moves to the next page: i += LOG_RECORD, and the
\* test on the end of the log
Advanced(v) ==
    IF v.i + 1 >= Len(v.log)
    THEN [v EXCEPT !.i = Len(v.log), !.loop = @ + 1]
    ELSE [v EXCEPT !.i = @ + 1]

\* one turn of the while loop of find_sequence(), i < size: the entry of the
\* session whose full CRC is wrong takes the continue that leaves i alone
Scanned(v) ==
    LET h == v.log[v.i + 1]
        e == [h EXCEPT !.t = "entry"] @@ [pos |-> v.i, buf |-> LogRead(v.log, v.i, h.len)]
        last == v.sequence[Len(v.sequence)]
    IN IF ~HeaderOk(h) THEN Advanced(v)
       ELSE IF h.guid # v.guid THEN Advanced(v)
       ELSE IF ~h.crc THEN v
       ELSE IF h.tail = v.i /\ Len(v.sequence) > 0 /\ v.sequence[1].seq = h.seq
       THEN [v EXCEPT !.phase = "found"]
       ELSE IF h.tail = v.i /\ (v.tail < 0 \/ h.seq > v.seq)
       THEN Advanced([v EXCEPT !.tail = v.i, !.seq = h.seq, !.sequence = <<e>>])
       ELSE IF Len(v.sequence) > 0 /\ last.tail = h.tail /\ last.seq = h.seq - 1
       THEN Advanced([v EXCEPT !.seq = h.seq, !.sequence = Append(@, e)])
       ELSE Advanced(v)

InitScan ==
    /\ \E log \in Logs, guid \in {"g0", "g1"} :
         vol = [log |-> log, guid |-> guid, i |-> 0, tail |-> -1, seq |-> -1, loop |-> -1,
                sequence |-> <<>>, phase |-> "scan"]
    /\ gh = [op |-> "find_sequence"]
    /\ disk = DiskInit
    /\ shadow = <<>>
    /\ dres = [op |-> "none", good |-> TRUE, calls |-> 0]

\* a turn of the loop
ScanEntry ==
    /\ vol.phase = "scan"
    /\ vol.i < Len(vol.log)
    /\ vol' = Scanned(vol)
    /\ UNCHANGED <<gh, diskvars>>

\* the loop has ended: the function raises when it holds no sequence
ScanEnd ==
    /\ vol.phase = "scan"
    /\ vol.i >= Len(vol.log)
    /\ vol' = [vol EXCEPT !.phase = IF Len(vol.sequence) = 0 THEN "corrupted" ELSE "found"]
    /\ UNCHANGED <<gh, diskvars>>

NextScan == ScanEntry \/ ScanEnd

\* the function runs till it ends: no turn that changes its state waits for ever
SpecScan == InitScan /\ [][NextScan]_vars /\ WF_vars(NextScan)

\* C29: the scan of the log ends, whatever the log region holds, with an
\* active sequence or with the error of a corrupted log.
C29_LogScanTerminates == <>(vol.phase \in {"found", "corrupted"})

\* C30: an image that opens uses as its header one of the two that passed
\* validation: when only one header is valid it is that one, also when the
\* other holds the higher sequence number.
C30_ActiveHeaderIsValid ==
    [][(gh'.op = "open" /\ vol'.phase = "open")
          => (Selected(vol).valid /\ Selected(vol) = CurrentHeader(vol))]_vars
=============================================================================
